---- MODULE Spec2Model ----
(***************************************************************************)
(* A model of the causal-DAG sampling engine of robustclevr                *)
(* (src/causal): configuration validation, the fixed-point construction    *)
(* of the node objects, top-down sampling, and save / load of a DAG.       *)
(*                                                                         *)
(* Numbers are exact rationals <<n, d>> (d > 0, lowest terms).  A string   *)
(* stored as a value of a sample entry is the 1-tuple <<s>>.               *)
(***************************************************************************)
EXTENDS Integers, Sequences, FiniteSets, TLC

VARIABLES
    cls,        \* the model class asked for ("DAG" or a built-in SCM)
    config,     \* the content of the configuration file given to DAG(...)
    seed_arg,   \* the seed argument given to DAG(...): a seed, or NoSeed for None
    ambient,    \* the state of the process-wide generator np.random
    inst,       \* the model instances: 1 is the original, 2 the replica
    file,       \* the YAML file written by save(), or NoFile
    factory,    \* Factory.registry, and the register calls made on it
    probe       \* the last direct call of a method, with its arguments and result

vars == <<cls, config, seed_arg, ambient, inst, file, factory, probe>>

-----------------------------------------------------------------------------
(* Bounds of the model *)

MaxNodes == 2      \* longest node_list drawn
MaxEdges == 2      \* longest edge_list drawn
MaxSamples == 2    \* sample() calls made on one instance
MaxSeed == 2       \* seeds are 1..MaxSeed
MaxRegisters == 3  \* register calls made on the empty registry

-----------------------------------------------------------------------------
(* Exact rational arithmetic (Python floats, without rounding) *)

Abs(x) == IF x < 0 THEN -x ELSE x

RECURSIVE GCD(_, _)
GCD(a, b) == IF b = 0 THEN a ELSE GCD(b, a % b)

Rat(n, d) ==
    LET s == IF d < 0 THEN -1 ELSE 1
        g == GCD(Abs(n), Abs(d))
    IN  <<(s * n) \div g, (s * d) \div g>>

RInt(n) == <<n, 1>>
RAdd(a, b) == Rat(a[1] * b[2] + b[1] * a[2], a[2] * b[2])
RSub(a, b) == Rat(a[1] * b[2] - b[1] * a[2], a[2] * b[2])
RMul(a, b) == Rat(a[1] * b[1], a[2] * b[2])
RDiv(a, b) == Rat(a[1] * b[2], a[2] * b[1])
RLe(a, b) == a[1] * b[2] <= b[1] * a[2]
RLt(a, b) == a[1] * b[2] < b[1] * a[2]
RAbs(a) == <<Abs(a[1]), a[2]>>
RMax(a, b) == IF RLe(a, b) THEN b ELSE a
RMin(a, b) == IF RLe(a, b) THEN a ELSE b

Str(s) == <<s>>

-----------------------------------------------------------------------------
(* Python dict as an insertion-ordered sequence of <<key, value>> pairs *)

Keys(d) == {d[i][1] : i \in 1..Len(d)}

HasKey(d, k) == k \in Keys(d)

Get(d, k) == d[CHOOSE i \in 1..Len(d) : d[i][1] = k][2]

\* d[k] = v : an existing key keeps its position, a new key is appended
DictSet(d, k, v) ==
    IF HasKey(d, k)
    THEN [i \in 1..Len(d) |-> IF d[i][1] = k THEN <<k, v>> ELSE d[i]]
    ELSE Append(d, <<k, v>>)

RECURSIVE DictUpdate(_, _)
DictUpdate(d, other) ==
    IF other = <<>> THEN d
    ELSE DictUpdate(DictSet(d, other[1][1], other[1][2]), Tail(other))

\* a record restricted to (or extended over) a set of fields
Fields(r) == DOMAIN r
Has(r, f) == f \in DOMAIN r
With(r, f, v) == [k \in (DOMAIN r) \cup {f} |-> IF k = f THEN v ELSE r[k]]
Without(r, f) == [k \in (DOMAIN r) \ {f} |-> r[k]]

SeqToSet(s) == {s[i] : i \in 1..Len(s)}
InSeq(x, s) == \E i \in 1..Len(s) : s[i] = x

\* f(e) with the argument evaluated before the call, as Python evaluates it
Call(f(_), e) == CHOOSE r \in {f(x) : x \in {e}} : TRUE

-----------------------------------------------------------------------------
(* The random stream: numpy's Generator.  Its state is the seed and the    *)
(* draws made so far; the value of a draw is a function of that state.     *)

KindCode(kind) == IF kind = "normal" THEN 1 ELSE IF kind = "uniform" THEN 2 ELSE 3

NoSeed == 0          \* seed=None
Seeds == 1..MaxSeed

\* a generator seeded from the number of models the process has built
default_rng_unseeded(seed) ==
    [word |-> Cardinality({r \in 1..2 : inst[r].status = "built"}) + 1, hist |-> <<>>]

default_rng(seed) == [word |-> (seed * 4 + 1) % 11, hist |-> <<>>]

\* the stream after one draw of `kind`, made by node `by` for `what`
Advance(rng, kind, by, what) ==
    [word |-> (rng.word * 7 + KindCode(kind)) % 11,
     hist |-> Append(rng.hist, [kind |-> kind, by |-> by, what |-> what])]

\* rng.normal(loc, scale) = loc + scale * z, z a standard normal in {-1, 0, 1}
normal(rng, loc, scale) == RAdd(loc, RMul(scale, RInt((rng.word % 3) - 1)))

\* rng.uniform(low, high) = low + (high - low) * u, u in {0, 1/4, 1/2, 3/4}
uniform(rng, low, high) == RAdd(low, RMul(RSub(high, low), Rat(rng.word % 4, 4)))

\* rng.integers(2)
integers2(rng) == rng.word % 2

\* np.random.randint(1e6) on the process-wide generator: the value returned and
\* the state it leaves
randint(state) == (state % MaxSeed) + 1
AfterRandint(state) == (state * 7 + 3) % 11

-----------------------------------------------------------------------------
(* Factory.registry after the package is imported: the registered names    *)
(* and, for each, whether it is a Node class.                               *)

registry ==
    {"DAG", "CustomDAG", "WrapperModel", "WeightedSumNode", "ConstantNode",
     "ChainModel", "ChainModelV2", "ChainModelV3",
     "TreeModel", "TreeModelV2", "TreeModelV3",
     "output_file", "defocus", "gamma", "blur", "glare", "pixelate", "lensdist",
     "bright_contrast", "directional_blur", "displace", "vector_blur",
     "noise_shader", "noise", "clouds", "rain", "snow"}

NodeClasses == {"WeightedSumNode", "ConstantNode"}

\* Python's None
None == [py |-> "None"]

\* the class or function that the package defines under @Factory.register(name)
Imported(name) == [py |-> "object", defined_as |-> name]

\* Factory after the package is imported; no register call has been made since
AfterImport ==
    [registry |-> [name \in registry |-> Imported(name)], registered |-> <<>>]

\* Factory as the class body leaves it: registry = {}
EmptyFactory == [registry |-> <<>>, registered |-> <<>>]

NoProbe == [op |-> "none"]

\* a registration that keeps the entry a name already has
register_keep_first(reg, executor_name, wrapped_class) ==
    [name \in (DOMAIN reg) \cup {executor_name} |->
        IF name \in DOMAIN reg THEN reg[name] ELSE wrapped_class]

\* Factory.register(executor_name)(wrapped_class): the registry after the call
register(reg, executor_name, wrapped_class) ==
    [name \in (DOMAIN reg) \cup {executor_name} |->
        IF name = executor_name THEN wrapped_class ELSE reg[name]]

\* a lookup that raises KeyError on a name that is not registered
create_class_raising(reg, class_name, kwargs) ==
    IF class_name \notin DOMAIN reg
    THEN [raised |-> TRUE, value |-> None, registry |-> reg]
    ELSE [raised |-> FALSE, value |-> [instance_of |-> reg[class_name], kwargs |-> kwargs],
          registry |-> reg]

\* Factory.create_class(class_name, **kwargs): the result and the registry after
create_class(reg, class_name, kwargs) ==
    IF class_name \notin DOMAIN reg
    THEN [raised |-> FALSE, value |-> None, registry |-> reg]
    ELSE [raised |-> FALSE, value |-> [instance_of |-> reg[class_name], kwargs |-> kwargs],
          registry |-> reg]

\* Factory.create_func(func_name): the result and the registry after
create_func(reg, func_name) ==
    IF func_name \notin DOMAIN reg
    THEN [raised |-> FALSE, value |-> None, registry |-> reg]
    ELSE [raised |-> FALSE, value |-> reg[func_name], registry |-> reg]

\* WrapperModel.__init__(dag_classes, config_files, **kwargs) with dags=None, both
\* arguments lists: the assertion on their lengths, then one create_class call
\* per pair; `logged` holds the _kwargs of lines 42-46, which are logged
WrapperModel(reg, dag_classes, config_files, kwargs) ==
    IF Len(dag_classes) # Len(config_files)
    THEN [raised |-> TRUE, dags |-> <<>>, logged |-> <<>>, n_dags |-> 0]
    ELSE [raised |-> FALSE,
          dags |-> [i \in 1..Len(dag_classes) |->
                      create_class(reg, dag_classes[i], kwargs).value],
          logged |-> [i \in 1..Len(dag_classes) |->
                        IF config_files[i] # None
                        THEN DictUpdate(<<<<"config_file", config_files[i]>>>>, kwargs)
                        ELSE kwargs],
          n_dags |-> Len(dag_classes)]

-----------------------------------------------------------------------------
(* DAGGenerator / CustomDAG : validation of the configuration              *)

\* ensure_unique_names: the first failing assertion over node_list, or "ok"
RECURSIVE ensure_unique_names(_, _, _)
ensure_unique_names(node_list, i, names) ==
    IF i > Len(node_list) THEN "ok"
    ELSE IF ~Has(node_list[i], "name") THEN "node without name"
    ELSE IF node_list[i].name = "root" THEN "root as node name"
    ELSE IF node_list[i].name \in names THEN "duplicate name"
    ELSE ensure_unique_names(node_list, i + 1, names \cup {node_list[i].name})

\* DAGGenerator.ensure_valid_config
base_ensure_valid_config(cfg) ==
    IF ~Has(cfg, "node_list") THEN "no node_list"
    ELSE ensure_unique_names(cfg.node_list, 1, {})

\* the names an edge may use: node_names = [node names] + ['root']
node_names(cfg) == {cfg.node_list[i].name : i \in 1..Len(cfg.node_list)} \cup {"root"}

\* a validation without the check that every name appears in an edge
ensure_valid_config_lax(cfg) ==
    LET base == base_ensure_valid_config(cfg)
    IN  IF base # "ok" THEN base
        ELSE IF ~Has(cfg, "edge_list") THEN "no edge_list"
        ELSE IF \E i \in 1..Len(cfg.edge_list) : \E j \in 1..2 :
                    cfg.edge_list[i][j] \notin node_names(cfg)
             THEN "unknown node in edge"
        ELSE "ok"

\* CustomDAG.ensure_valid_config
ensure_valid_config(cfg) ==
    LET base == base_ensure_valid_config(cfg)
    IN  IF base # "ok" THEN base
        ELSE IF ~Has(cfg, "edge_list") THEN "no edge_list"
        ELSE IF \E i \in 1..Len(cfg.edge_list) : \E j \in 1..2 :
                    cfg.edge_list[i][j] \notin node_names(cfg)
             THEN "unknown node in edge"
        ELSE IF \E n \in node_names(cfg) :
                    ~\E i \in 1..Len(cfg.edge_list) :
                        n = cfg.edge_list[i][1] \/ n = cfg.edge_list[i][2]
             THEN "node not in edge list"
        ELSE "ok"

\* CustomDAG.select_nodes_and_edges
select_nodes_and_edges(cfg) == [nodes |-> cfg.node_list, edges |-> cfg.edge_list]

-----------------------------------------------------------------------------
(* Node, ConstantNode, WeightedSumNode                                     *)

necessary_fields(type) ==
    IF type = "ConstantNode"
    THEN {"name", "parents", "parameter", "defaults", "render_value", "severity_value"}
    ELSE {"name", "parents", "parameter", "defaults", "min_val", "max_val", "extreme",
          "standard", "beta_a", "beta_b", "corruption_type", "bias", "std",
          "activation_type", "rng"}

\* a check of the fields alone, without the assertions on their values
ensure_valid_node_fields_only(type, kwargs) ==
    IF ~(necessary_fields(type) \subseteq DOMAIN kwargs) THEN "missing field" ELSE "ok"

\* ensure_valid_node of the class `type`: the first failing assertion, or "ok"
ensure_valid_node(type, kwargs) ==
    IF ~(necessary_fields(type) \subseteq DOMAIN kwargs) THEN "missing field"
    ELSE IF type = "ConstantNode"
    THEN IF RLe(RInt(0), kwargs.severity_value) /\ RLe(kwargs.severity_value, RInt(1))
         THEN "ok" ELSE "severity out of range"
    ELSE IF ~RLt(kwargs.min_val, kwargs.max_val) THEN "min_val >= max_val"
    ELSE IF kwargs.corruption_type \notin {"increasing", "decreasing", "centered"}
         THEN "bad corruption_type"
    ELSE IF ~RLt(RInt(0), kwargs.beta_a) THEN "beta_a <= 0"
    ELSE IF ~RLt(RInt(0), kwargs.beta_b) THEN "beta_b <= 0"
    ELSE IF ~RLt(RInt(0), kwargs.std) THEN "std <= 0"
    ELSE IF kwargs.activation_type \notin {"sigmoid", "tanh"} THEN "bad activation_type"
    ELSE "ok"

\* filter_dict(fields, kwargs)
filter_dict(fields, kwargs) == [f \in fields |-> kwargs[f]]

\* ConstantNode.__init__ : no draw
ConstantNode(p) ==
    [node_type |-> "ConstantNode", name |-> p.name, parents |-> p.parents,
     parameter |-> p.parameter, defaults |-> p.defaults,
     render_value |-> p.render_value, severity_value |-> p.severity_value]

\* the bias of a WeightedSumNode: isinstance(bias, float) or isinstance(bias, int)
\* holds of a YAML number and of a YAML boolean (bool is a subclass of int)
BiasIsNumber(bias) == bias.t \in {"num", "bool"}
BiasAsFloat(bias) == IF bias.t = "num" THEN bias.num ELSE RInt(IF bias.bool THEN 1 ELSE 0)
BiasIsRandom(bias) == bias.t = "str" /\ bias.str = "random"

\* the stream after the bias step of WeightedSumNode.__init__
BiasRng(p, rng) ==
    IF ~BiasIsNumber(p.bias) /\ BiasIsRandom(p.bias)
    THEN Advance(rng, "normal", p.name, "bias")
    ELSE rng

BiasValue(p, rng) ==
    IF BiasIsNumber(p.bias) THEN BiasAsFloat(p.bias)
    ELSE IF BiasIsRandom(p.bias) THEN normal(rng, RInt(0), RInt(1))
    ELSE RInt(0)

\* for parent in parents: edge_weights[parent.name] = rng.uniform(-1, 1)
RECURSIVE DrawWeights(_, _, _, _)
DrawWeights(name, parents, i, st) ==
    IF i > Len(parents) THEN st
    ELSE DrawWeights(name, parents, i + 1,
            [weights |-> DictSet(st.weights, parents[i], uniform(st.rng, RInt(-1), RInt(1))),
             rng |-> Advance(st.rng, "uniform", name, parents[i])])

\* the edge_weights dict as a function of the parent's name
AsMap(d) == [k \in Keys(d) |-> Get(d, k)]

\* WeightedSumNode.__init__ : the node and the stream after its draws
WeightedSumNode(p, rng) ==
    LET w == DrawWeights(p.name, p.parents, 1, [weights |-> <<>>, rng |-> BiasRng(p, rng)])
    IN  [node |-> [node_type |-> "WeightedSumNode", name |-> p.name, parents |-> p.parents,
                   parameter |-> p.parameter, defaults |-> p.defaults,
                   min_val |-> p.min_val, max_val |-> p.max_val, extreme |-> p.extreme,
                   standard |-> p.standard, beta_a |-> p.beta_a, beta_b |-> p.beta_b,
                   corruption_type |-> p.corruption_type, std |-> p.std,
                   activation_type |-> p.activation_type,
                   bias |-> BiasValue(p, rng), edge_weights |-> AsMap(w.weights)],
         rng |-> w.rng]

\* Factory.create_class(cls, **node_params)
create_node(type, p, rng) ==
    IF type = "ConstantNode" THEN [node |-> ConstantNode(p), rng |-> rng]
    ELSE WeightedSumNode(p, rng)

\* a severity that measures the centered distance against the width of the range
get_severity_by_range(node, render_value) ==
    IF node.node_type = "ConstantNode" THEN node.severity_value
    ELSE IF node.corruption_type = "increasing"
    THEN RDiv(RSub(render_value, node.min_val), RSub(node.max_val, node.min_val))
    ELSE IF node.corruption_type = "decreasing"
    THEN RDiv(RSub(node.max_val, render_value), RSub(node.max_val, node.min_val))
    ELSE RDiv(RAbs(RSub(render_value, node.standard)), RSub(node.max_val, node.min_val))

get_severity_from_render_value(node, render_value) ==
    IF node.node_type = "ConstantNode" THEN node.severity_value
    ELSE IF node.corruption_type = "increasing"
    THEN RDiv(RSub(render_value, node.min_val), RSub(node.max_val, node.min_val))
    ELSE IF node.corruption_type = "decreasing"
    THEN RDiv(RSub(node.max_val, render_value), RSub(node.max_val, node.min_val))
    ELSE LET distance == RAbs(RSub(render_value, node.standard))
             max_distance == RMax(RAbs(RSub(node.max_val, node.standard)),
                                  RAbs(RSub(node.min_val, node.standard)))
         IN  RDiv(distance, max_distance)

\* an inverse that treats a decreasing corruption as an increasing one
get_render_value_increasing_only(node, severity, rng) ==
    IF node.node_type = "ConstantNode" THEN node.render_value
    ELSE IF node.corruption_type \in {"increasing", "decreasing"}
    THEN RAdd(node.min_val, RMul(severity, RSub(node.max_val, node.min_val)))
    ELSE LET max_distance == RMax(RAbs(RSub(node.max_val, node.standard)),
                                  RAbs(RSub(node.min_val, node.standard)))
         IN  RAdd(node.standard, RMul(RMul(severity, max_distance),
                                      RInt(integers2(rng) * 2 - 1)))

\* the centered inverse draws its sign: rng.integers(2) * 2 - 1
get_render_value_from_severity(node, severity, rng) ==
    IF node.node_type = "ConstantNode" THEN node.render_value
    ELSE IF node.corruption_type = "increasing"
    THEN RAdd(node.min_val, RMul(severity, RSub(node.max_val, node.min_val)))
    ELSE IF node.corruption_type = "decreasing"
    THEN RAdd(node.min_val, RMul(RSub(RInt(1), severity), RSub(node.max_val, node.min_val)))
    ELSE LET max_distance == RMax(RAbs(RSub(node.max_val, node.standard)),
                                  RAbs(RSub(node.min_val, node.standard)))
             distance == RMul(severity, max_distance)
         IN  RAdd(node.standard, RMul(distance, RInt(integers2(rng) * 2 - 1)))

RenderFromSeverityRng(node, rng) ==
    IF node.node_type = "WeightedSumNode" /\ node.corruption_type = "centered"
    THEN Advance(rng, "integers", node.name, "sign")
    ELSE rng

\* set_activation: both activations map the reals onto [0, 1]; each is modelled by
\* the piecewise-linear map with its value and slope at 0
Clamp01(x) == RMax(RInt(0), RMin(RInt(1), x))
activation_fn(node, x) ==
    IF node.activation_type = "sigmoid"
    THEN Clamp01(RAdd(Rat(1, 2), RDiv(x, RInt(4))))
    ELSE Clamp01(RAdd(Rat(1, 2), RDiv(x, RInt(2))))

\* scipy's betaincinv: the quantile function of Beta(a, b); Beta(1, 1) is the
\* uniform distribution, whose quantile function is the identity
betaincinv(a, b, quantile) == quantile

\* the weighted sum of the parents' severities; a parent without an entry, an
\* entry without 'severity' or a parent without a weight raises KeyError
RECURSIVE WeightedTotal(_, _, _, _)
WeightedTotal(node, parent_samples, i, total) ==
    IF i > Len(node.parents) THEN [ok |-> TRUE, total |-> total]
    ELSE LET parent == node.parents[i] IN
         IF parent \notin DOMAIN node.edge_weights
            \/ ~HasKey(parent_samples, parent)
            \/ ~HasKey(Get(parent_samples, parent), "severity")
         THEN [ok |-> FALSE, total |-> total]
         ELSE WeightedTotal(node, parent_samples, i + 1,
                 RAdd(total, RMul(node.edge_weights[parent],
                                  Get(Get(parent_samples, parent), "severity"))))

\* a ConstantNode that adds noise drawn from the stream to its stored pair
constant_sampling_noisy(node, parent_samples, rng) ==
    [ok |-> TRUE, render_value |-> RAdd(node.render_value, normal(rng, RInt(0), RInt(1))),
     severity |-> node.severity_value, rng |-> Advance(rng, "normal", node.name, "noise"),
     node |-> node]

\* ConstantNode.sampling_function(**parent_samples); `node` is self after the call
constant_sampling(node, parent_samples, rng) ==
    [ok |-> TRUE, render_value |-> node.render_value,
     severity |-> node.severity_value, rng |-> rng, node |-> node]

\* a sampling function that keeps the noise it drew as the node's new bias
weighted_sum_sampling_adapting(node, parent_samples, rng) ==
    LET sum == WeightedTotal(node, parent_samples, 1, RInt(0)) IN
    IF ~sum.ok
    THEN [ok |-> FALSE, render_value |-> RInt(0), severity |-> RInt(0), rng |-> rng,
          node |-> node]
    ELSE LET noise == normal(rng, node.bias, node.std)
             quantile == activation_fn(node, RAdd(sum.total, noise))
             render_value == RAdd(node.min_val,
                                  RMul(betaincinv(node.beta_a, node.beta_b, quantile),
                                       RSub(node.max_val, node.min_val)))
         IN  [ok |-> TRUE, render_value |-> render_value,
              severity |-> get_severity_from_render_value(node, render_value),
              rng |-> Advance(rng, "normal", node.name, "noise"),
              node |-> [node EXCEPT !.bias = noise]]

\* a sampling function that takes the noisy total itself for the quantile
weighted_sum_sampling_unsquashed(node, parent_samples, rng) ==
    LET sum == WeightedTotal(node, parent_samples, 1, RInt(0)) IN
    IF ~sum.ok
    THEN [ok |-> FALSE, render_value |-> RInt(0), severity |-> RInt(0), rng |-> rng,
          node |-> node]
    ELSE LET x == RAdd(sum.total, normal(rng, node.bias, node.std))
             render_value == RAdd(node.min_val, RMul(x, RSub(node.max_val, node.min_val)))
         IN  [ok |-> TRUE, render_value |-> render_value,
              severity |-> get_severity_from_render_value(node, render_value),
              rng |-> Advance(rng, "normal", node.name, "noise"),
              node |-> node]

\* WeightedSumNode.sampling_function(**parent_samples); `node` is self after the
\* call
weighted_sum_sampling(node, parent_samples, rng) ==
    LET sum == WeightedTotal(node, parent_samples, 1, RInt(0)) IN
    IF ~sum.ok
    THEN [ok |-> FALSE, render_value |-> RInt(0), severity |-> RInt(0), rng |-> rng,
          node |-> node]
    ELSE LET total == RAdd(sum.total, normal(rng, node.bias, node.std))
             quantile == activation_fn(node, total)
             x == betaincinv(node.beta_a, node.beta_b, quantile)
             render_value == RAdd(node.min_val, RMul(x, RSub(node.max_val, node.min_val)))
         IN  [ok |-> TRUE, render_value |-> render_value,
              severity |-> get_severity_from_render_value(node, render_value),
              rng |-> Advance(rng, "normal", node.name, "noise"),
              node |-> node]

\* <node>.sampling_function(**parent_samples), by the class of the node
sampling_function(node, parent_samples, rng) ==
    IF node.node_type = "ConstantNode"
    THEN constant_sampling(node, parent_samples, rng)
    ELSE weighted_sum_sampling(node, parent_samples, rng)

\* an entry that starts from the defaults and then sets what was sampled
causal_func_defaults_first(node, parent_samples, rng) ==
    LET s == sampling_function(node, parent_samples, rng)
    IN  [ok |-> s.ok,
         samples |-> DictSet(DictSet(DictSet(node.defaults, node.parameter, s.render_value),
                                     "severity", s.severity),
                             "sampled", Str(node.parameter)),
         rng |-> s.rng, node |-> s.node]

\* Node.causal_func(**parent_samples): the entry of the node
causal_func(node, parent_samples, rng) ==
    LET s == sampling_function(node, parent_samples, rng)
        head == DictSet(DictSet(DictSet(<<>>, node.parameter, s.render_value),
                                "severity", s.severity),
                        "sampled", Str(node.parameter))
    IN  [ok |-> s.ok, samples |-> DictUpdate(head, node.defaults), rng |-> s.rng,
         node |-> s.node]

-----------------------------------------------------------------------------
(* DAG.initialize_nodes_and_edges : the fixed-point construction           *)

\* a subset test that lets a node be built before its parents
subset_ignored(lst1, built) == TRUE

\* a subset test that only the children of 'root' alone pass
subset_of_root(lst1, built) == \A i \in 1..Len(lst1) : lst1[i] = "root"

\* subset(lst1, lst2) with lst2 the keys of node_objects
subset(lst1, built) == \A i \in 1..Len(lst1) : lst1[i] \in built

RECURSIVE get_parents(_, _, _, _)

\* the parent of every edge into node_name, a repeated edge repeating its parent
get_parents_repeating(node_name, edges, i, parents) ==
    LET into == SelectSeq(edges, LAMBDA e : e[2] = node_name)
    IN  [k \in 1..Len(into) |-> into[k][1]]

\* DAG.get_parents: the parents of node_name, each once, in edge_list order
get_parents(node_name, edges, i, parents) ==
    IF i > Len(edges) THEN parents
    ELSE get_parents(node_name, edges, i + 1,
            IF edges[i][2] = node_name /\ ~InSeq(edges[i][1], parents)
            THEN Append(parents, edges[i][1]) ELSE parents)

\* the entry of configuration['node_list'] with that name (the first one)
spec_of(cfg, name) ==
    cfg.node_list[CHOOSE i \in 1..Len(cfg.node_list) :
                    /\ cfg.node_list[i].name = name
                    /\ \A j \in 1..(i - 1) : cfg.node_list[j].name # name]

\* DAG.get_node_parameters
get_node_parameters(cfg, name) ==
    LET node_parameters == spec_of(cfg, name)
    IN  IF Has(node_parameters, "defaults") THEN node_parameters
        ELSE With(node_parameters, "defaults", <<>>)

NonRoot(parents) == SelectSeq(parents, LAMBDA q : q # "root")

\* the `intervene` branch: the ConstantNode that replaces `node`
intervene_node(node, node_params, rng) ==
    LET iv == node_params.intervene
        has_s == Has(iv, "severity_value")
        has_r == Has(iv, "render_value")
        severity_value ==
            IF has_s THEN iv.severity_value
            ELSE get_severity_from_render_value(node, iv.render_value)
        render_value ==
            IF has_r THEN iv.render_value
            ELSE get_render_value_from_severity(node, iv.severity_value, rng)
        rng2 == IF has_s /\ ~has_r THEN RenderFromSeverityRng(node, rng) ELSE rng
    IN  IF ~has_s /\ ~has_r
        THEN [err |-> "intervene on nothing", node |-> node, rng |-> rng]
        ELSE IF ~(RLe(RInt(0), severity_value) /\ RLe(severity_value, RInt(1)))
        THEN [err |-> "severity out of range", node |-> node, rng |-> rng2]
        ELSE LET intervene_params ==
                    [name |-> node_params.name, parameter |-> node_params.parameter,
                     defaults |-> node_params.defaults, render_value |-> render_value,
                     severity_value |-> severity_value, parents |-> node_params.parents]
                 valid == ensure_valid_node("ConstantNode", intervene_params)
             IN  [err |-> valid,
                  node |-> ConstantNode(filter_dict(necessary_fields("ConstantNode"),
                                                    intervene_params)),
                  rng |-> rng2]

\* <node>.load(_yaml): the frozen values of the persisted form overwrite the node's
LoadKeys(node) ==
    IF node.node_type = "ConstantNode" THEN {"render_value", "severity_value"}
    ELSE {"min_val", "max_val", "extreme", "standard", "beta_a", "beta_b",
          "corruption_type", "std", "activation_type", "bias", "edge_weights"}

\* a load that leaves the node as its constructor made it
node_load_ignored(node, yaml) == node

node_load(node, yaml) ==
    [f \in DOMAIN node |->
        IF f \notin LoadKeys(node) THEN node[f]
        ELSE IF f = "bias" THEN yaml.bias.num
        ELSE yaml[f]]

\* lines 155-170: the node is loaded if the model is loadable, and is recorded
record_node(cfg, child_name, corruption_func, st, loadable, created, iv) ==
    IF iv.err # "ok"
    THEN [st EXCEPT !.err = iv.err, !.rng = iv.rng, !.created = created - 1]
    ELSE IF loadable /\ ~(LoadKeys(iv.node) \subseteq DOMAIN spec_of(cfg, child_name))
    THEN [st EXCEPT !.err = "load: KeyError", !.rng = iv.rng, !.created = created]
    ELSE [st EXCEPT
            !.objs = Append(@, IF loadable
                               THEN node_load(iv.node, spec_of(cfg, child_name))
                               ELSE iv.node),
            !.info = Append(@, [name |-> iv.node.name,
                                corruption_func |-> corruption_func]),
            !.rng = iv.rng, !.created = created, !.added = TRUE]

\* lines 118-153: the `intervene` branch on the node just made
maybe_intervene(cfg, child_name, corruption_func, st, loadable, filtered, made) ==
    IF Has(filtered, "intervene")
    THEN Call(LAMBDA iv : record_node(cfg, child_name, corruption_func, st, loadable,
                                      st.created + 2, iv),
              intervene_node(made.node, filtered, made.rng))
    ELSE record_node(cfg, child_name, corruption_func, st, loadable, st.created + 1,
                     [err |-> "ok", node |-> made.node, rng |-> made.rng])

\* lines 116-117: the fields kept and the node made from them
make_node(cfg, child_name, corruption_func, st, loadable, type, filtered) ==
    Call(LAMBDA made : maybe_intervene(cfg, child_name, corruption_func, st, loadable,
                                       filtered, made),
         create_node(type, filtered, st.rng))

\* lines 109-115: type and corruption_func are popped, the class checks its fields
check_node(cfg, child_name, st, loadable, type, corruption_func, kwargs) ==
    IF type \notin registry \/ type \notin NodeClasses
    THEN [st EXCEPT !.err = "not a node class"]
    ELSE IF ensure_valid_node(type, kwargs) # "ok"
    THEN [st EXCEPT !.err = ensure_valid_node(type, kwargs)]
    ELSE make_node(cfg, child_name, corruption_func, st, loadable, type,
                   filter_dict(necessary_fields(type), kwargs))

\* lines 102-107: the parameters of the node, with its parents
with_params(cfg, child_name, st, loadable, node_params) ==
    IF ~Has(node_params, "type") \/ ~Has(node_params, "corruption_func")
    THEN [st EXCEPT !.err = "type or corruption_func not given"]
    ELSE check_node(cfg, child_name, st, loadable, node_params.type,
                    node_params.corruption_func,
                    With(Without(Without(node_params, "type"), "corruption_func"),
                         "rng", "rng"))

\* lines 102-170: the construction of one node whose parents are built
build_node(cfg, child_name, child_parents, st, loadable) ==
    with_params(cfg, child_name, st, loadable,
                With(get_node_parameters(cfg, child_name), "parents", NonRoot(child_parents)))

Built(st) == {st.objs[i].name : i \in 1..Len(st.objs)}

RECURSIVE scan(_, _, _, _, _, _)

\* lines 93-101: the child at position i, its parents read
scan_child(cfg, nodes, edges, i, st, loadable, child_name, child_parents) ==
    IF Len(child_parents) = 0
    THEN [st EXCEPT !.err = "node has no parents"]
    ELSE IF child_name \notin Built(st) /\ subset(child_parents, Built(st) \cup {"root"})
    THEN Call(LAMBDA built : scan(cfg, nodes, edges, i + 1, built, loadable),
              build_node(cfg, child_name, child_parents, st, loadable))
    ELSE scan(cfg, nodes, edges, i + 1, st, loadable)

\* one pass of `for child in nodes`, from position i on
scan(cfg, nodes, edges, i, st, loadable) ==
    IF i > Len(nodes) \/ st.err # "ok" THEN st
    ELSE scan_child(cfg, nodes, edges, i, st, loadable, nodes[i].name,
                    get_parents(nodes[i].name, edges, 1, <<>>))

RECURSIVE build_loop(_, _, _, _, _)

\* a loop that gives the nodes one more pass than there are nodes before it
\* calls a pass without progress a cycle
after_pass_patient(cfg, nodes, edges, after, loadable) ==
    IF after.err # "ok" THEN after
    ELSE IF ~after.added /\ after.passes > Len(nodes) THEN [after EXCEPT !.err = "cycle"]
    ELSE build_loop(cfg, nodes, edges, after, loadable)

\* line 175: a pass that has added nothing is a cycle
after_pass(cfg, nodes, edges, after, loadable) ==
    IF after.err # "ok" THEN after
    ELSE IF ~after.added THEN [after EXCEPT !.err = "cycle"]
    ELSE build_loop(cfg, nodes, edges, after, loadable)

\* while len(added_nodes) < len(nodes): one pass over the nodes
build_loop(cfg, nodes, edges, st, loadable) ==
    IF ~(Cardinality(Built(st)) < Len(nodes)) THEN st
    ELSE Call(LAMBDA after : after_pass(cfg, nodes, edges, after, loadable),
              scan(cfg, nodes, edges, 1,
                   [st EXCEPT !.added = FALSE, !.passes = @ + 1], loadable))

initialize_nodes_and_edges(cfg, nodes, edges, rng, loadable) ==
    build_loop(cfg, nodes, edges,
               [objs |-> <<>>, info |-> <<>>, rng |-> rng, err |-> "ok",
                added |-> FALSE, passes |-> 0, created |-> 0],
               loadable)

-----------------------------------------------------------------------------
(* ModelBase : the networkx graph, the acyclicity check and sample()       *)

\* nx.DiGraph: the nodes in insertion order, and each node's successors in
\* insertion order
EmptyGraph == [nodes |-> <<>>, succ |-> <<>>]

add_node(g, n) ==
    IF InSeq(n, g.nodes) THEN g
    ELSE [nodes |-> Append(g.nodes, n), succ |-> Append(g.succ, <<>>)]

Index(g, n) == CHOOSE i \in 1..Len(g.nodes) : g.nodes[i] = n

add_successor(g, u, v) ==
    [g EXCEPT !.succ[Index(g, u)] = IF InSeq(v, @) THEN @ ELSE Append(@, v)]

add_edge(g, u, v) ==
    Call(LAMBDA g2 : add_successor(g2, u, v), add_node(add_node(g, u), v))

RECURSIVE add_nodes_from(_, _)
add_nodes_from(g, names) ==
    IF names = <<>> THEN g
    ELSE Call(LAMBDA g2 : add_nodes_from(g2, Tail(names)), add_node(g, Head(names)))

RECURSIVE add_edges_from(_, _)
add_edges_from(g, edges) ==
    IF edges = <<>> THEN g
    ELSE Call(LAMBDA g2 : add_edges_from(g2, Tail(edges)),
              add_edge(g, Head(edges)[1], Head(edges)[2]))

in_degree(g, n) == Cardinality({i \in 1..Len(g.nodes) : InSeq(n, g.succ[i])})

\* the children of the nodes of one generation, in the order they are visited
RECURSIVE children_of(_, _)
children_of(g, generation) ==
    IF generation = <<>> THEN <<>>
    ELSE g.succ[Index(g, Head(generation))] \o children_of(g, Tail(generation))

\* indegree_map[child] -= 1; a child that reaches 0 joins the next generation
RECURSIVE release(_, _, _)
release(children, indegree, next) ==
    IF children = <<>> THEN [indegree |-> indegree, next |-> next]
    ELSE Call(LAMBDA r : release(Tail(children), r.indegree, r.next),
              [indegree |-> [indegree EXCEPT ![Head(children)] = @ - 1],
               next |-> IF indegree[Head(children)] = 1
                        THEN Append(next, Head(children)) ELSE next])

RECURSIVE generations(_, _, _, _)
generations(g, this_generation, indegree, out) ==
    IF this_generation = <<>> THEN out
    ELSE Call(LAMBDA r : generations(g, r.next, r.indegree, out \o this_generation),
              release(children_of(g, this_generation), indegree, <<>>))

\* nx.topological_sort(G): Kahn's algorithm by generations; on a graph with a
\* cycle the nodes on and behind the cycle are never reached
topological_sort(g) ==
    LET indegree == [n \in SeqToSet(g.nodes) |-> in_degree(g, n)]
    IN  generations(g, SelectSeq(g.nodes, LAMBDA n : indegree[n] = 0), indegree, <<>>)

\* an acyclicity check that accepts every graph
no_acyclic_check(g) == TRUE

is_directed_acyclic_graph(g) == Len(topological_sort(g)) = Len(g.nodes)

\* ModelBase.__init__: self.nodes is keyed by name, self.dag holds those names
\* and then the end points of the edges
RECURSIVE names_of(_)
names_of(node_list) ==
    IF node_list = <<>> THEN <<>>
    ELSE LET rest == names_of(Tail(node_list))
         IN  <<Head(node_list).name>> \o SelectSeq(rest, LAMBDA n : n # Head(node_list).name)

make_dag(node_list, edge_list) ==
    add_edges_from(add_nodes_from(EmptyGraph, names_of(node_list)), edge_list)

\* str.lower() on the names the configurations use
lower(name) ==
    CASE name = "Root" -> "root"
      [] name = "A" -> "a"
      [] name = "B" -> "b"
      [] name = "C" -> "c"
      [] OTHER -> name

node_object(m, name) ==
    m.node_objects[CHOOSE i \in 1..Len(m.node_objects) : m.node_objects[i].name = name]

\* an intervened node is given its intervention for an entry, as if it had not
\* been called
sample_node_skipping(node_name, intervene, st, r) ==
    IF ~r.ok THEN [st EXCEPT !.ok = FALSE]
    ELSE IF HasKey(intervene, node_name)
    THEN [st EXCEPT !.node_params = DictSet(@, node_name, Get(intervene, node_name))]
    ELSE [st EXCEPT !.node_params = DictSet(@, node_name, r.samples),
                    !.rng = r.rng,
                    !.node_objects = [i \in 1..Len(@) |->
                                        IF @[i].name = node_name THEN r.node ELSE @[i]]]

\* lines 78-80: the entry of the node, updated with its intervention
sample_node(node_name, intervene, st, r) ==
    IF ~r.ok THEN [st EXCEPT !.ok = FALSE]
    ELSE [st EXCEPT
            !.node_params =
                DictSet(@, node_name,
                        IF HasKey(intervene, node_name)
                        THEN DictUpdate(r.samples, Get(intervene, node_name))
                        ELSE r.samples),
            !.rng = r.rng,
            !.node_objects = [i \in 1..Len(@) |->
                                IF @[i].name = node_name THEN r.node ELSE @[i]]]

\* the loop of ModelBase.sample over the topological order, from position i on
RECURSIVE sample_loop(_, _, _, _, _)
sample_loop(m, order, intervene, i, st) ==
    IF i > Len(order) \/ ~st.ok THEN st
    ELSE IF lower(order[i]) = "root"
    THEN sample_loop(m, order, intervene, i + 1, st)
    ELSE Call(LAMBDA r : sample_loop(m, order, intervene, i + 1,
                                     sample_node(order[i], intervene, st, r)),
              causal_func(node_object(st, order[i]), st.node_params, st.rng))

\* ModelBase.sample(intervene=...): the returned mapping (or the failure) and the
\* stream after the call
sample(m, intervene) ==
    Call(LAMBDA order : sample_loop(m, order, intervene, 1,
                                    [ok |-> TRUE, node_params |-> <<>>, rng |-> m.rng,
                                     node_objects |-> m.node_objects]),
         topological_sort(m.dag))

-----------------------------------------------------------------------------
(* DAG.__init__, DAG.save, DAG.load, and the built-in models               *)

NoInst == [status |-> "none"]

Failed(stage, error, created, draws) ==
    [status |-> "failed", cls |-> "DAG", stage |-> stage, error |-> error,
     created |-> created, draws |-> draws]

\* line 74, super().__init__(save_all, seed): the graph, the acyclicity assertion
\* and the model
model_base_init(cfg, load, seed, seed_given, b, edges, dag) ==
    IF ~is_directed_acyclic_graph(dag)
    THEN Failed("acyclic", "not a DAG", b.created, Len(b.rng.hist))
    ELSE [status |-> "built", cls |-> "DAG", configuration |-> cfg,
          loadable |-> load, seed |-> seed, ambient_seed |-> (seed_given = NoSeed),
          rng |-> b.rng, node_objects |-> b.objs, node_list |-> b.info,
          edge_list |-> edges, dag |-> dag, passes |-> b.passes,
          created |-> b.created, built_draws |-> Len(b.rng.hist),
          nsamp |-> 0, last |-> [ok |-> TRUE, node_params |-> <<>>],
          intervenes |-> <<>>]

\* lines 70-74: the outcome of initialize_nodes_and_edges
after_build(cfg, load, seed, seed_given, edges, b) ==
    IF b.err # "ok"
    THEN Failed("build", b.err, b.created, Len(b.rng.hist))
            @@ [built |-> Built(b), hist |-> b.rng.hist, passes |-> b.passes]
    ELSE Call(LAMBDA dag : model_base_init(cfg, load, seed, seed_given, b, edges, dag),
              make_dag(b.info, edges))

\* lines 66-71: the seed, the stream and the construction of the nodes
seeded_build(cfg, load, seed, seed_given, sel) ==
    Call(LAMBDA b : after_build(cfg, load, seed, seed_given, sel.edges, b),
         initialize_nodes_and_edges(cfg, sel.nodes, sel.edges, default_rng(seed), load))

\* DAG.__init__(config_file, seed, load); `global` is the state of np.random
DAG(cfg, seed_given, global, load) ==
    IF ~Has(cfg, "dag_generation_method")
    THEN Failed("config", "no dag_generation_method", 0, 0)
    ELSE IF cfg.dag_generation_method \notin registry \/ cfg.dag_generation_method # "CustomDAG"
    THEN Failed("config", "not a DAG generator", 0, 0)
    ELSE IF ensure_valid_config(cfg) # "ok"
    THEN Failed("validation", ensure_valid_config(cfg), 0, 0)
    ELSE IF ~(Len(select_nodes_and_edges(cfg).edges) > 0)
    THEN Failed("config", "no edges", 0, 0)
    ELSE seeded_build(cfg, load,
                      IF seed_given = NoSeed THEN randint(global) ELSE seed_given,
                      seed_given, select_nodes_and_edges(cfg))

\* <node>.to_yaml()
node_to_yaml(node) ==
    LET base == [name |-> node.name, parameter |-> node.parameter,
                 defaults |-> node.defaults, type |-> node.node_type]
    IN  IF node.node_type = "ConstantNode"
        THEN base @@ [render_value |-> node.render_value,
                      severity_value |-> node.severity_value]
        ELSE base @@ [min_val |-> node.min_val, max_val |-> node.max_val,
                      extreme |-> node.extreme, standard |-> node.standard,
                      beta_a |-> node.beta_a, beta_b |-> node.beta_b,
                      corruption_type |-> node.corruption_type, std |-> node.std,
                      activation_type |-> node.activation_type,
                      bias |-> [t |-> "num", num |-> node.bias],
                      edge_weights |-> node.edge_weights]

corruption_func_of(m, name) ==
    m.node_list[CHOOSE i \in 1..Len(m.node_list) : m.node_list[i].name = name].corruption_func

\* a serialisation that lists the nodes in the order of the configuration
to_yaml_as_configured(m) ==
    [node_list |->
        [i \in 1..Len(m.configuration.node_list) |->
            LET node_parameters ==
                    node_to_yaml(node_object(m, m.configuration.node_list[i].name))
                kept == IF Len(node_parameters.defaults) = 0
                        THEN Without(node_parameters, "defaults") ELSE node_parameters
            IN  With(kept, "corruption_func",
                     corruption_func_of(m, m.configuration.node_list[i].name))],
     edge_list |-> m.edge_list]

\* DAG.to_yaml(): the nodes in the order of node_objects, and the edges
to_yaml(m) ==
    [node_list |->
        [i \in 1..Len(m.node_objects) |->
            LET node_parameters == node_to_yaml(m.node_objects[i])
                kept == IF Len(node_parameters.defaults) = 0
                        THEN Without(node_parameters, "defaults") ELSE node_parameters
            IN  With(kept, "corruption_func", corruption_func_of(m, m.node_objects[i].name))],
     edge_list |-> m.edge_list]

\* DAG.save(filepath): the YAML document written
save(m) ==
    to_yaml(m) @@ [original_configuration |-> m.configuration,
                   dag_generation_method |-> "CustomDAG",
                   loadable |-> TRUE, seed |-> m.seed]

\* a load that goes straight to the constructor
load_unchecked(yaml) ==
    DAG(yaml, IF Has(yaml, "seed") THEN yaml.seed ELSE NoSeed, 0, TRUE)

\* DAG.load(config_file)
load(yaml) ==
    IF ~(Has(yaml, "loadable") /\ yaml.loadable)
    THEN Failed("load", "not loadable", 0, 0)
    ELSE IF ~(Has(yaml, "dag_generation_method") /\ yaml.dag_generation_method = "CustomDAG")
    THEN Failed("load", "not a CustomDAG", 0, 0)
    ELSE IF ~Has(yaml, "seed") THEN Failed("load", "no seed", 0, 0)
    ELSE DAG(yaml, yaml.seed, 0, TRUE)

\* np.random after DAG.__init__: the seed is drawn once the configuration is valid
DAGAmbient(cfg, seed_given, global) ==
    IF seed_given = NoSeed /\ Has(cfg, "dag_generation_method")
       /\ cfg.dag_generation_method = "CustomDAG" /\ ensure_valid_config(cfg) = "ok"
    THEN AfterRandint(global) ELSE global

\* custom_scm: the node_list and edge_list each built-in model sets in __init__
SCMClasses == {"ChainModel", "ChainModelV2", "ChainModelV3",
               "TreeModel", "TreeModelV2", "TreeModelV3"}

ChainNodes == <<"C", "G", "B", "L", "DB", "D", "N">>
TreeNodes == <<"BC", "G", "D", "B", "L", "DB", "DS", "N", "C", "GL">>

scm_node_list(c) ==
    LET names == IF c \in {"ChainModel", "ChainModelV2", "ChainModelV3"}
                 THEN ChainNodes ELSE TreeNodes
    IN  [i \in 1..Len(names) |-> [name |-> names[i]]]

scm_edge_list(c) ==
    IF c \in {"ChainModel", "ChainModelV3"}
    THEN <<<<"root", "C">>, <<"C", "B">>, <<"B", "G">>, <<"G", "L">>, <<"L", "DB">>,
           <<"DB", "D">>, <<"D", "N">>>>
    ELSE IF c = "ChainModelV2"
    THEN <<<<"root", "G">>, <<"G", "L">>, <<"L", "D">>, <<"D", "DB">>, <<"DB", "B">>,
           <<"B", "C">>, <<"C", "N">>>>
    ELSE <<<<"root", "L">>, <<"root", "DB">>, <<"root", "G">>, <<"root", "BC">>,
           <<"root", "D">>, <<"root", "B">>, <<"root", "N">>, <<"root", "C">>,
           <<"root", "GL">>>>

\* <SCM>.__init__() followed by ModelBase.__init__()
SCM(c) ==
    LET dag == make_dag(scm_node_list(c), scm_edge_list(c))
    IN  IF ~is_directed_acyclic_graph(dag)
        THEN [status |-> "failed", cls |-> c, stage |-> "acyclic", error |-> "not a DAG",
              created |-> 0, draws |-> 0]
        ELSE [status |-> "built", cls |-> c, node_list |-> scm_node_list(c),
              edge_list |-> scm_edge_list(c), dag |-> dag, seed |-> 1]

-----------------------------------------------------------------------------
(* The configurations drawn                                                *)

WSNode(name) ==
    [name |-> name, type |-> "WeightedSumNode", corruption_func |-> "corrupt",
     parameter |-> "value", min_val |-> RInt(0), max_val |-> RInt(10),
     extreme |-> RInt(10), standard |-> RInt(5), beta_a |-> RInt(1), beta_b |-> RInt(1),
     corruption_type |-> "increasing", bias |-> [t |-> "num", num |-> RInt(0)],
     std |-> RInt(1), activation_type |-> "sigmoid"]

ConstNode(name, severity) ==
    [name |-> name, type |-> "ConstantNode", corruption_func |-> "corrupt",
     parameter |-> "level", defaults |-> <<<<"size", RInt(3)>>>>,
     render_value |-> RInt(7), severity_value |-> severity]

\* the kinds of WeightedSumNode spec that ensure_valid_node refuses
InvalidKinds == {"ws_bad_range", "ws_bad_corruption_type", "ws_bad_beta_a",
                 "ws_bad_beta_b", "ws_bad_std", "ws_bad_activation_type",
                 "ws_no_extreme"}

InvalidWSNode(name, kind) ==
    LET random == [WSNode(name) EXCEPT !.bias = [t |-> "str", str |-> "random"]]
    IN  CASE kind = "ws_bad_range" -> [random EXCEPT !.min_val = RInt(10)]
          [] kind = "ws_bad_corruption_type" -> [random EXCEPT !.corruption_type = "flat"]
          [] kind = "ws_bad_beta_a" -> [random EXCEPT !.beta_a = RInt(0)]
          [] kind = "ws_bad_beta_b" -> [random EXCEPT !.beta_b = RInt(-1)]
          [] kind = "ws_bad_std" -> [random EXCEPT !.std = RInt(0)]
          [] kind = "ws_bad_activation_type" -> [random EXCEPT !.activation_type = "relu"]
          [] OTHER -> Without(random, "extreme")

\* a node of node_list, by the kind of its specification
NodeSpec(name, kind) ==
    IF kind = "ws" THEN WSNode(name)
    ELSE IF kind = "ws_random"
    THEN [WSNode(name) EXCEPT !.bias = [t |-> "str", str |-> "random"]]
    ELSE IF kind = "const" THEN ConstNode(name, Rat(1, 2))
    ELSE IF kind = "const_high" THEN ConstNode(name, Rat(3, 2))
    ELSE IF kind = "ws_intervene_severity"
    THEN With(WSNode(name), "intervene", [severity_value |-> Rat(1, 4)])
    ELSE IF kind = "ws_intervene_high"
    THEN With(WSNode(name), "intervene", [severity_value |-> Rat(3, 2)])
    ELSE IF kind \in InvalidKinds THEN InvalidWSNode(name, kind)
    ELSE With(WSNode(name), "intervene", [render_value |-> RInt(2)])

Kinds == {"ws", "ws_random", "const", "const_high",
          "ws_intervene_severity", "ws_intervene_high", "ws_intervene_render"}

SeqsUpTo(S, n) == UNION {[1..k -> S] : k \in 0..n}

MkConfig(names, kinds, edges) ==
    [dag_generation_method |-> "CustomDAG",
     node_list |-> [i \in 1..Len(names) |-> NodeSpec(names[i], kinds[i])],
     edge_list |-> edges]

AllWS(names) == [i \in 1..Len(names) |-> "ws"]

\* configurations that fail before node_list or edge_list is read
BrokenConfigs ==
    LET c == MkConfig(<<"A">>, <<"ws">>, <<<<"root", "A">>>>)
    IN  {Without(c, "dag_generation_method"),
         [c EXCEPT !.dag_generation_method = "RandomDAG"],
         [c EXCEPT !.dag_generation_method = "DAG"],
         Without(c, "node_list"),
         Without(c, "edge_list")}

NoConfig == [none |-> TRUE]
NoFile == [exists |-> FALSE]

\* A DAG is asked for: node_list draws its names from `names` (and "root"), its
\* kinds from `kinds`, edge_list its end points from `names` and "root".  The
\* kinds of the nodes and the seed are read only after validation has passed:
\* for a configuration that validation rejects one choice of them is drawn, and
\* with `accepted` only the configurations that validation accepts are drawn.
InitDAG(names, kinds, accepted, max_nodes, max_edges) ==
    /\ cls = "DAG"
    /\ \/ /\ ~accepted
          /\ config \in BrokenConfigs
          /\ seed_arg = 1
       \/ \E ns \in SeqsUpTo(names \cup {"root"}, max_nodes),
             es \in SeqsUpTo((names \cup {"root"}) \X (names \cup {"root"}), max_edges) :
            IF ensure_valid_config(MkConfig(ns, AllWS(ns), es)) = "ok"
            THEN /\ \E ks \in [1..Len(ns) -> kinds] : config = MkConfig(ns, ks, es)
                 /\ seed_arg \in {NoSeed} \cup Seeds
            ELSE /\ ~accepted
                 /\ config = MkConfig(ns, AllWS(ns), es)
                 /\ seed_arg = 1

InitSCM ==
    /\ cls \in SCMClasses
    /\ config = NoConfig
    /\ seed_arg = NoSeed

\* np.random is in some state when the program starts; it is read only when
\* no seed is given
Fresh ==
    /\ ambient \in (IF seed_arg = NoSeed /\ cls = "DAG" THEN {0, 1} ELSE {0})
    /\ inst = [r \in 1..2 |-> NoInst]
    /\ file = NoFile
    /\ factory = AfterImport
    /\ probe = NoProbe

\* two instances of one accepted configuration: the original, and a replica
\* that is built afresh or loaded from the file the original saved
Init ==
    /\ InitDAG({"A", "B"}, {"ws", "ws_random", "const"}, TRUE, MaxNodes, MaxEdges) \/ InitSCM
    /\ Fresh

\* one instance of an accepted configuration, over every kind of node
InitNodes ==
    /\ InitDAG({"A", "B", "Root"}, Kinds, TRUE, MaxNodes, MaxEdges) \/ InitSCM
    /\ Fresh

\* one instance of an accepted configuration of up to three nodes
InitOrder ==
    /\ InitDAG({"A", "B", "C"}, {"ws_random"}, TRUE, MaxNodes + 1, MaxEdges + 1) \/ InitSCM
    /\ Fresh

\* one instance of a configuration whose WeightedSumNode specs may be refused
InitInvalid ==
    /\ InitDAG({"A", "B"}, InvalidKinds \cup {"ws_random"}, TRUE, MaxNodes, MaxEdges) \/ InitSCM
    /\ Fresh

\* one instance of any configuration, accepted or not
InitConfig ==
    /\ InitDAG({"A", "B", "Root"}, {"ws"}, FALSE, MaxNodes, MaxEdges) \/ InitSCM
    /\ Fresh

\* one instance of a configuration of three WeightedSum nodes with a random bias,
\* in either order of node_list, whose edge_list may repeat an edge
InitWeights ==
    /\ \/ /\ cls = "DAG"
          /\ \E ns \in {<<"A", "B", "C">>, <<"C", "B", "A">>},
                es \in SeqsUpTo({<<"root", "A">>, <<"A", "B">>, <<"A", "C">>, <<"B", "C">>},
                                MaxEdges + 3) :
                /\ ensure_valid_config(MkConfig(ns, AllWS(ns), es)) = "ok"
                /\ config = MkConfig(ns, [i \in 1..Len(ns) |-> "ws_random"], es)
          /\ seed_arg \in Seeds
       \/ InitSCM
    /\ Fresh

\* the node objects whose methods are called directly, all without parents:
\* WeightedSumNodes of every corruption_type over three (min_val, max_val,
\* standard), and a ConstantNode, each over four defaults mappings
ProbeNodes ==
    LET ProbeDefaults ==
            {<<>>,
             <<<<"size", RInt(3)>>>>,
             <<<<"size", RInt(3)>>, <<"value", RInt(9)>>>>,
             <<<<"severity", Rat(1, 4)>>, <<"level", RInt(9)>>>>}
    IN
    {WeightedSumNode(
        With(With([WSNode("A") EXCEPT !.corruption_type = ct, !.min_val = RInt(b[1]),
                                      !.max_val = RInt(b[2]), !.standard = RInt(b[3])],
                  "parents", <<>>), "defaults", d),
        default_rng(1)).node :
        ct \in {"increasing", "decreasing", "centered"},
        b \in {<<0, 10, 5>>, <<-2, 3, 0>>, <<1, 4, 6>>},
        d \in ProbeDefaults}
    \cup {ConstantNode(With(With(ConstNode("A", Rat(1, 2)), "parents", <<>>), "defaults", d)) :
            d \in ProbeDefaults}

\* render values of [min_val, max_val]
Renders(node) ==
    IF node.node_type = "ConstantNode" THEN {node.render_value}
    ELSE {RAdd(node.min_val, RMul(q, RSub(node.max_val, node.min_val))) :
            q \in {RInt(0), Rat(1, 3), Rat(1, 2), Rat(3, 4), RInt(1)}}

\* a node object is at hand, no method has been called
InitCalls ==
    /\ cls = "Node"
    /\ config = NoConfig
    /\ seed_arg = NoSeed
    /\ ambient = 0
    /\ inst = [r \in 1..2 |-> NoInst]
    /\ file = NoFile
    /\ factory = AfterImport
    /\ probe = NoProbe

\* the registry as the class body leaves it, before any decorator has run
InitRegistry ==
    /\ cls = "Factory"
    /\ config = NoConfig
    /\ seed_arg = NoSeed
    /\ ambient = 0
    /\ inst = [r \in 1..2 |-> NoInst]
    /\ file = NoFile
    /\ factory = EmptyFactory
    /\ probe = NoProbe

-----------------------------------------------------------------------------
(* The operations                                                          *)

\* the names and the objects of the register calls, the keyword arguments of
\* create_class
RegistryNames == {"blur", "noise", "DAG"}
RegistryObjects == {[py |-> "object", defined_as |-> "first"],
                    [py |-> "object", defined_as |-> "second"]}
RegistryKwargs == {<<>>, <<<<"config", RInt(1)>>>>}

\* @Factory.register(executor_name) applied to wrapped_class
Register ==
    /\ Len(factory.registered) < MaxRegisters
    /\ \E executor_name \in RegistryNames, wrapped_class \in RegistryObjects :
          /\ factory' = [registry |-> register(factory.registry, executor_name, wrapped_class),
                         registered |-> Append(factory.registered,
                                               [name |-> executor_name, obj |-> wrapped_class])]
          /\ probe' = [op |-> "register", name |-> executor_name, raised |-> FALSE,
                       returned |-> wrapped_class]
    /\ UNCHANGED <<cls, config, seed_arg, ambient, inst, file>>

\* Factory.create_class(class_name, **kwargs)
CreateClass ==
    /\ cls = "Factory"
    /\ \E class_name \in RegistryNames, kwargs \in RegistryKwargs :
         \E r \in {create_class(factory.registry, class_name, kwargs)} :
            /\ factory' = [factory EXCEPT !.registry = r.registry]
            /\ probe' = [op |-> "create_class", name |-> class_name, kwargs |-> kwargs,
                         raised |-> r.raised, returned |-> r.value]
    /\ UNCHANGED <<cls, config, seed_arg, ambient, inst, file>>

\* Factory.create_func(func_name)
CreateFunc ==
    /\ cls = "Factory"
    /\ \E func_name \in RegistryNames :
         \E r \in {create_func(factory.registry, func_name)} :
            /\ factory' = [factory EXCEPT !.registry = r.registry]
            /\ probe' = [op |-> "create_func", name |-> func_name,
                         raised |-> r.raised, returned |-> r.value]
    /\ UNCHANGED <<cls, config, seed_arg, ambient, inst, file>>

\* WrapperModel(dag_classes, config_files, **kwargs): one or two class names, one
\* or two config files (a path or None)
Wrap ==
    /\ cls = "Factory"
    /\ \E dag_classes \in SeqsUpTo({"DAG", "blur"}, 2) \ {<<>>},
          config_files \in {<<[py |-> "str", path |-> "a.yaml"]>>,
                            <<[py |-> "str", path |-> "a.yaml"],
                              [py |-> "str", path |-> "b.yaml"]>>,
                            <<None>>,
                            <<[py |-> "str", path |-> "a.yaml"], None>>},
          kwargs \in {<<>>, <<<<"seed", RInt(1)>>>>} :
          probe' = [op |-> "WrapperModel", dag_classes |-> dag_classes,
                    config_files |-> config_files, kwargs |-> kwargs,
                    returned |-> WrapperModel(factory.registry, dag_classes, config_files,
                                              kwargs)]
    /\ UNCHANGED <<cls, config, seed_arg, ambient, inst, file, factory>>

\* the `intervene` arguments given to sample()
Intervenes == {<<>>, <<<<"A", <<<<"severity", RInt(1)>>>>>>>>}

\* DAG(config_file, seed=seed_arg)
ConstructDAG(r) ==
    /\ cls = "DAG"
    /\ inst[r].status = "none"
    /\ inst' = [inst EXCEPT ![r] = DAG(config, seed_arg, ambient, FALSE)]
    /\ ambient' = DAGAmbient(config, seed_arg, ambient)
    /\ UNCHANGED <<cls, config, seed_arg, file, factory, probe>>

\* ChainModel(), ..., TreeModelV3()
ConstructSCM(r) ==
    /\ cls \in SCMClasses
    /\ inst[r].status = "none"
    /\ inst' = [inst EXCEPT ![r] = SCM(cls)]
    /\ UNCHANGED <<cls, config, seed_arg, ambient, file, factory, probe>>

\* <dag>.sample(intervene=intervene)
Sample(r) ==
    /\ inst[r].status = "built"
    /\ inst[r].cls = "DAG"
    /\ inst[r].nsamp < MaxSamples
    /\ \E intervene \in Intervenes :
         \E s \in {sample(inst[r], intervene)} :
             inst' = [inst EXCEPT ![r].rng = s.rng,
                                  ![r].node_objects = s.node_objects,
                                  ![r].nsamp = @ + 1,
                                  ![r].last = [ok |-> s.ok, node_params |-> s.node_params],
                                  ![r].intervenes = Append(@, intervene)]
    /\ UNCHANGED <<cls, config, seed_arg, ambient, file, factory, probe>>

\* <original>.save(filepath)
Save ==
    /\ inst[1].status = "built"
    /\ inst[1].cls = "DAG"
    /\ file' = [exists |-> TRUE, yaml |-> save(inst[1])]
    /\ UNCHANGED <<cls, config, seed_arg, ambient, inst, factory, probe>>

\* replica = DAG.load(filepath)
Load ==
    /\ file.exists
    /\ inst[2].status = "none"
    /\ inst' = [inst EXCEPT ![2] = load(file.yaml)]
    /\ UNCHANGED <<cls, config, seed_arg, ambient, file, factory, probe>>

\* replica = DAG.load(filepath) on the file the original saved, as written or
\* with `loadable`, `seed` or `dag_generation_method` removed or changed
LoadForm ==
    /\ file.exists
    /\ inst[2].status = "none"
    /\ \E form \in {file.yaml,
                     Without(file.yaml, "loadable"),
                     [file.yaml EXCEPT !.loadable = FALSE],
                     Without(file.yaml, "seed"),
                     Without(file.yaml, "dag_generation_method"),
                     [file.yaml EXCEPT !.dag_generation_method = "DAG"]} :
          /\ inst' = [inst EXCEPT ![2] = load(form)]
          /\ probe' = [op |-> "load", form |-> form]
    /\ UNCHANGED <<cls, config, seed_arg, ambient, file, factory>>

Next ==
    \/ \E r \in 1..2 : ConstructDAG(r)
    \/ \E r \in 1..2 : ConstructSCM(r)
    \/ \E r \in 1..2 : Sample(r)
    \/ Save
    \/ Load

\* the operations on the original alone
NextOne ==
    \/ ConstructDAG(1)
    \/ ConstructSCM(1)
    \/ Sample(1)

\* <node>.causal_func() of a node without parents; a WeightedSumNode has a bias
\* of 0, 3 or -3, which with the noise takes the quantile to both ends of [0, 1]
CallCausalFunc ==
    /\ cls = "Node"
    /\ \E made \in ProbeNodes, seed \in Seeds, bias \in {RInt(0), RInt(3), RInt(-3)} :
         \E node \in {IF made.node_type = "WeightedSumNode"
                       THEN [made EXCEPT !.bias = bias] ELSE made} :
            probe' = [op |-> "causal_func", node |-> node,
                      sampled |-> sampling_function(node, <<>>, default_rng(seed)),
                      returned |-> causal_func(node, <<>>, default_rng(seed)).samples]
    /\ UNCHANGED <<cls, config, seed_arg, ambient, inst, file, factory>>

\* <node>.get_severity_from_render_value(render_value), on a render value of the
\* range or (chained) on the value get_render_value_from_severity has just returned
GetSeverity ==
    /\ cls = "Node"
    /\ \E node \in ProbeNodes, chained \in BOOLEAN :
          /\ chained => /\ probe.op = "get_render_value_from_severity"
                        /\ probe.node = node
                        /\ ~probe.chained
          /\ \E render_value \in (IF chained THEN {probe.returned} ELSE Renders(node)) :
                probe' = [op |-> "get_severity_from_render_value", node |-> node,
                          arg |-> render_value, chained |-> chained,
                          origin |-> IF chained THEN probe.arg ELSE render_value,
                          returned |-> get_severity_from_render_value(node, render_value)]
    /\ UNCHANGED <<cls, config, seed_arg, ambient, inst, file, factory>>

\* <node>.get_render_value_from_severity(severity), on a severity of [0, 1] or
\* (chained) on the value get_severity_from_render_value has just returned; the
\* stream of the node is in either state of its next rng.integers(2)
GetRender ==
    /\ cls = "Node"
    /\ \E node \in ProbeNodes, chained \in BOOLEAN, word \in 0..1 :
          /\ chained => /\ probe.op = "get_severity_from_render_value"
                        /\ probe.node = node
                        /\ ~probe.chained
          /\ \E severity \in (IF chained THEN {probe.returned}
                               ELSE {RInt(0), Rat(1, 3), Rat(1, 2), Rat(3, 4), RInt(1)}) :
                probe' = [op |-> "get_render_value_from_severity", node |-> node,
                          arg |-> severity, chained |-> chained,
                          origin |-> IF chained THEN probe.arg ELSE severity,
                          returned |-> get_render_value_from_severity(
                                          node, severity, [word |-> word, hist |-> <<>>])]
    /\ UNCHANGED <<cls, config, seed_arg, ambient, inst, file, factory>>

\* WeightedSumNode(**node_params) called directly: `bias` is a number, a boolean,
\* a string or None, the node has no parent or one, the stream is freshly seeded
NewWeightedSumNode ==
    /\ cls = "Node"
    /\ \E bias \in {[t |-> "num", num |-> RInt(2)], [t |-> "num", num |-> Rat(-1, 2)],
                     [t |-> "bool", bool |-> TRUE], [t |-> "bool", bool |-> FALSE],
                     [t |-> "str", str |-> "random"], [t |-> "str", str |-> "fixed"],
                     [t |-> "none"]},
          parents \in {<<>>, <<"P">>},
          seed \in Seeds :
          probe' = [op |-> "WeightedSumNode", bias |-> bias, parents |-> parents,
                    rng |-> default_rng(seed),
                    returned |-> WeightedSumNode(
                                    With(With([WSNode("A") EXCEPT !.bias = bias],
                                              "parents", parents), "defaults", <<>>),
                                    default_rng(seed))]
    /\ UNCHANGED <<cls, config, seed_arg, ambient, inst, file, factory>>

\* the direct calls on a node
NextCalls ==
    \/ CallCausalFunc
    \/ GetSeverity
    \/ GetRender
    \/ NewWeightedSumNode

\* the original is constructed and saved, and a persisted form is loaded
NextLoad ==
    \/ ConstructDAG(1)
    \/ ConstructSCM(1)
    \/ Save
    \/ LoadForm

\* the calls on Factory
NextRegistry ==
    \/ Register
    \/ CreateClass
    \/ CreateFunc
    \/ Wrap

\* construction alone
NextBuild ==
    \/ ConstructDAG(1)
    \/ ConstructSCM(1)

Spec == Init /\ [][Next]_vars

SpecNodes == InitNodes /\ [][NextOne]_vars

SpecOrder == InitOrder /\ [][NextBuild]_vars

SpecConfig == InitConfig /\ [][NextBuild]_vars

SpecInvalid == InitInvalid /\ [][NextBuild]_vars

SpecRegistry == InitRegistry /\ [][NextRegistry]_vars

SpecCalls == InitCalls /\ [][NextCalls]_vars

SpecLoad == Init /\ [][NextLoad]_vars

SpecWeights == InitWeights /\ [][NextLoad]_vars

-----------------------------------------------------------------------------
(* Vocabulary of the properties                                            *)

IsDAG(m) == m.status = "built" /\ m.cls = "DAG"

ObjectNames(m) == {m.node_objects[i].name : i \in 1..Len(m.node_objects)}

\* the names of the node_list the model was constructed from
ConfigNames(m) ==
    {m.configuration.node_list[i].name : i \in 1..Len(m.configuration.node_list)}

\* the position of a key in an ordered mapping, 0 when it is absent
PosOf(d, k) == IF HasKey(d, k) THEN CHOOSE i \in 1..Len(d) : d[i][1] = k ELSE 0

EdgeSet(edges) == {edges[i] : i \in 1..Len(edges)}

\* the end points reachable from `from` along the edges, `from` included
RECURSIVE ReachFrom(_, _)
ReachFrom(edges, from) ==
    LET more == from \cup {e[2] : e \in {x \in EdgeSet(edges) : x[1] \in from}}
    IN  IF more = from THEN from ELSE ReachFrom(edges, more)

\* some edge closes a directed cycle: its parent is reachable from its child
HasCycle(edges) == \E e \in EdgeSet(edges) : e[1] \in ReachFrom(edges, {e[2]})

-----------------------------------------------------------------------------
(* C1: for every configuration that DAG construction accepts, a sample()   *)
(* call returns an entry for exactly the node names of node_list ('root'   *)
(* excluded), each entry after the entries of its non-root parents.        *)
C1_SampleCoversNodes ==
    \A r \in 1..2 :
        (IsDAG(inst[r]) /\ inst[r].nsamp > 0) =>
            /\ inst[r].last.ok
            /\ Keys(inst[r].last.node_params) = ConfigNames(inst[r]) \ {"root"}
            /\ \A e \in EdgeSet(inst[r].edge_list) :
                  e[1] # "root" =>
                      PosOf(inst[r].last.node_params, e[1])
                          < PosOf(inst[r].last.node_params, e[2])

-----------------------------------------------------------------------------
(* C2: construction from a configuration whose edge_list contains a        *)
(* directed cycle (a self-loop, a cycle among nodes, a cycle through       *)
(* 'root') fails; the edges of every constructed DAG are acyclic.          *)
C2_CycleFails ==
    /\ \A r \in 1..2 :
          (cls = "DAG" /\ inst[r].status # "none" /\ Has(config, "edge_list")
             /\ HasCycle(config.edge_list)) => inst[r].status = "failed"
    /\ \A r \in 1..2 : IsDAG(inst[r]) => ~HasCycle(inst[r].edge_list)

\* a configuration that passes validation and whose only cycle runs through
\* 'root' has been refused
C2_Witness ==
    /\ inst[1].status = "failed"
    /\ inst[1].stage = "acyclic"
    /\ HasCycle(config.edge_list)

-----------------------------------------------------------------------------
(* C3: in a constructed DAG every node of node_list has been constructed   *)
(* exactly once and after all its non-root parents.  The order is that of  *)
(* repeated full passes over node_list in which a node is built as soon as *)
(* its parents are built, parents built earlier in the same pass included; *)
(* the construction-time draws are made node by node in that order.        *)

\* the position of a name in the node_list of the configuration
NodePos(m, name) ==
    CHOOSE i \in 1..Len(m.configuration.node_list) :
        m.configuration.node_list[i].name = name

NonRootParents(m, name) ==
    {e[1] : e \in {x \in EdgeSet(m.edge_list) : x[2] = name /\ x[1] # "root"}}

SetMax(S) == CHOOSE x \in S : \A y \in S : y <= x

\* the pass in which a node is built: the first pass, or the pass of its latest
\* parent, or the pass after it when that parent stands later in node_list
RECURSIVE PassOf(_, _)
PassOf(m, name) ==
    IF NonRootParents(m, name) = {} THEN 1
    ELSE SetMax({PassOf(m, p) + (IF NodePos(m, p) < NodePos(m, name) THEN 0 ELSE 1) :
                    p \in NonRootParents(m, name)})

\* the draws the constructor of the i-th built node makes
NodeDraws(m, i) ==
    LET n == m.node_objects[i]
        sp == m.configuration.node_list[NodePos(m, n.name)]
    IN  IF n.node_type # "WeightedSumNode" THEN <<>>
        ELSE (IF Has(sp, "bias") /\ sp.bias = [t |-> "str", str |-> "random"]
              THEN <<[kind |-> "normal", by |-> n.name, what |-> "bias"]>>
              ELSE <<>>)
             \o [j \in 1..Len(n.parents) |->
                    [kind |-> "uniform", by |-> n.name, what |-> n.parents[j]]]

RECURSIVE DrawsUpTo(_, _)
DrawsUpTo(m, i) == IF i = 0 THEN <<>> ELSE DrawsUpTo(m, i - 1) \o NodeDraws(m, i)

\* C3: the order of construction is the order by (pass, position in node_list),
\* every node once and after its parents, and the draws follow that order
C3_ConstructionOrder ==
    \A r \in 1..2 :
        IsDAG(inst[r]) =>
            LET m == inst[r]
                n == Len(m.node_objects)
                name(i) == m.node_objects[i].name
            IN  /\ n = Len(m.configuration.node_list)
                /\ m.created = n
                /\ ObjectNames(m) = ConfigNames(m)
                /\ \A i, j \in 1..n : i # j => name(i) # name(j)
                /\ \A j \in 1..n : \A p \in NonRootParents(m, name(j)) :
                      \E i \in 1..(j - 1) : name(i) = p
                /\ \A j \in 1..n :
                      SeqToSet(m.node_objects[j].parents) = NonRootParents(m, name(j))
                /\ \A i, j \in 1..n :
                      i < j =>
                          \/ PassOf(m, name(i)) < PassOf(m, name(j))
                          \/ /\ PassOf(m, name(i)) = PassOf(m, name(j))
                             /\ NodePos(m, name(i)) < NodePos(m, name(j))
                /\ m.passes = SetMax({PassOf(m, name(i)) : i \in 1..n})
                /\ SubSeq(m.rng.hist, 1, m.built_draws) = DrawsUpTo(m, n)

\* three nodes were built in two passes: the first of node_list in the second
\* pass, and the third in the first pass right after its parent
C3_Witness ==
    /\ IsDAG(inst[1])
    /\ Len(inst[1].node_objects) = 3
    /\ inst[1].passes = 2
    /\ inst[1].node_objects[3].name = config.node_list[1].name
    /\ inst[1].node_objects[1].name = config.node_list[2].name
    /\ inst[1].node_objects[2].parents = <<config.node_list[2].name>>
    /\ inst[1].built_draws = 5

-----------------------------------------------------------------------------
(* C4: determinism.  Two models built independently from one valid        *)
(* configuration with one given seed, after the same number of sample()    *)
(* calls without interventions, have made the same sequence of draws and   *)
(* have returned identical ordered mappings, call by call.                 *)

NoInterventions(m) == \A k \in 1..Len(m.intervenes) : m.intervenes[k] = <<>>

BuiltFromSeed(m) == IsDAG(m) /\ ~m.loadable /\ ~m.ambient_seed

-----------------------------------------------------------------------------
(* C5: save/load round trip.  For a configuration of WeightedSum nodes,    *)
(* whatever their bias setting, the model loaded from the file the         *)
(* original saved returns from its first sample() call the mapping the     *)
(* freshly built original returned from its first sample() call.           *)

AllWeightedSum(m) ==
    \A i \in 1..Len(m.node_objects) : m.node_objects[i].node_type = "WeightedSumNode"

\* C5: the first sample of the loaded replica equals the first sample of the
\* freshly built original
C5_RoundTrip ==
    (/\ IsDAG(inst[1]) /\ ~inst[1].loadable /\ AllWeightedSum(inst[1])
     /\ IsDAG(inst[2]) /\ inst[2].loadable
     /\ inst[1].nsamp = 1 /\ inst[2].nsamp = 1
     /\ NoInterventions(inst[1]) /\ NoInterventions(inst[2]))
        => inst[2].last = inst[1].last

-----------------------------------------------------------------------------
(* C6: a node whose spec in node_list carries an `intervene` request is    *)
(* built as a ConstantNode holding the requested value(s), and every       *)
(* sample() returns that render value and severity for the node.           *)

ObjectOf(m, name) ==
    m.node_objects[CHOOSE i \in 1..Len(m.node_objects) : m.node_objects[i].name = name]

\* C6: a spec with `intervene` yields a ConstantNode with the requested values
C6_InterveneBuildsConstant ==
    IsDAG(inst[1]) =>
        \A i \in 1..Len(inst[1].configuration.node_list) :
            LET sp == inst[1].configuration.node_list[i]
                node == ObjectOf(inst[1], sp.name)
                entry == Get(inst[1].last.node_params, sp.name)
            IN  Has(sp, "intervene") =>
                    /\ node.node_type = "ConstantNode"
                    /\ Has(sp.intervene, "severity_value") =>
                          node.severity_value = sp.intervene.severity_value
                    /\ Has(sp.intervene, "render_value") =>
                          node.render_value = sp.intervene.render_value
                    /\ HasKey(inst[1].last.node_params, sp.name) =>
                          /\ Get(entry, node.parameter) = node.render_value
                          /\ Get(entry, "severity") = node.severity_value

-----------------------------------------------------------------------------
(* C7: construction fails, and no model is produced, whenever a severity   *)
(* outside [0,1] is supplied, as the severity_value of a ConstantNode spec *)
(* or as the severity_value of an `intervene` request on any node.         *)

InUnit(x) == RLe(RInt(0), x) /\ RLe(x, RInt(1))

SeverityOutOfRange(sp) ==
    \/ sp.type = "ConstantNode" /\ Has(sp, "severity_value") /\ ~InUnit(sp.severity_value)
    \/ /\ Has(sp, "intervene")
       /\ Has(sp.intervene, "severity_value")
       /\ ~InUnit(sp.intervene.severity_value)

\* C7: a configuration that supplies a severity outside [0,1] is never built
C7_SeverityOutOfRangeFails ==
    (/\ cls = "DAG"
     /\ inst[1].status # "none"
     /\ \E i \in 1..Len(config.node_list) : SeverityOutOfRange(config.node_list[i]))
        => inst[1].status = "failed"

-----------------------------------------------------------------------------
(* C8: constant-node invariance.  In any sequence of sample() calls a      *)
(* ConstantNode returns the (render_value, severity_value) pair it was     *)
(* built or loaded with, whatever its parents' entries are, and no draw of *)
(* the random stream is made on its behalf.                                *)

\* the names the last sample() call was asked to intervene on
LastIntervened(m) == Keys(m.intervenes[Len(m.intervenes)])

\* C8: a sampled ConstantNode returns its stored pair and makes no draw
C8_ConstantInvariance ==
    \A r \in 1..2 :
        (IsDAG(inst[r]) /\ inst[r].nsamp > 0 /\ inst[r].last.ok) =>
            \A i \in 1..Len(inst[r].node_objects) :
                LET m == inst[r]
                    node == m.node_objects[i]
                    sp == m.configuration.node_list[NodePos(m, node.name)]
                    entry == Get(m.last.node_params, node.name)
                IN  (node.node_type = "ConstantNode" /\ node.name \notin LastIntervened(m)) =>
                        /\ HasKey(m.last.node_params, node.name)
                        /\ Get(entry, node.parameter) = sp.render_value
                        /\ Get(entry, "severity") = sp.severity_value
                        /\ \A k \in 1..Len(m.rng.hist) : m.rng.hist[k].by # node.name

\* a ConstantNode below a WeightedSumNode has been sampled twice, in the
\* original and in the replica loaded from its file
C8_Witness ==
    /\ IsDAG(inst[1]) /\ IsDAG(inst[2]) /\ inst[2].loadable
    /\ inst[1].nsamp = 2 /\ inst[2].nsamp = 2
    /\ \E i \in 1..Len(inst[2].node_objects) :
          /\ inst[2].node_objects[i].node_type = "ConstantNode"
          /\ Len(inst[2].node_objects[i].parents) = 1
          /\ HasKey(inst[2].last.node_params, inst[2].node_objects[i].name)
          /\ HasKey(inst[2].last.node_params, inst[2].node_objects[i].parents[1])
    /\ Len(inst[2].rng.hist) > inst[2].built_draws

-----------------------------------------------------------------------------
(* C9: the validation of a CustomDAG configuration.                        *)

SpecNames(cfg) == {cfg.node_list[i].name : i \in 1..Len(cfg.node_list)}

\* node names are unique and none is "root"
UniqueNonRootNames(cfg) ==
    /\ \A i, j \in 1..Len(cfg.node_list) :
          i # j => cfg.node_list[i].name # cfg.node_list[j].name
    /\ "root" \notin SpecNames(cfg)

\* edge_list is present and non-empty
EdgeListGiven(cfg) == Has(cfg, "edge_list") /\ Len(cfg.edge_list) > 0

\* every name used in an edge other than "root" is a node name
EdgeNamesKnown(cfg) ==
    \A e \in EdgeSet(cfg.edge_list) : {e[1], e[2]} \ {"root"} \subseteq SpecNames(cfg)

\* every node name appears in at least one edge
EveryNodeInAnEdge(cfg) ==
    \A n \in SpecNames(cfg) : \E e \in EdgeSet(cfg.edge_list) : n \in {e[1], e[2]}

\* "root" appears in at least one edge
RootInAnEdge(cfg) == \E e \in EdgeSet(cfg.edge_list) : "root" \in {e[1], e[2]}

FourRules(cfg) ==
    /\ UniqueNonRootNames(cfg)
    /\ EdgeListGiven(cfg)
    /\ EdgeNamesKnown(cfg)
    /\ EveryNodeInAnEdge(cfg)

\* a CustomDAG configuration with a node_list has been handed to DAG(...)
Validated ==
    /\ cls = "DAG"
    /\ inst[1].status # "none"
    /\ Has(config, "dag_generation_method")
    /\ config.dag_generation_method = "CustomDAG"
    /\ Has(config, "node_list")

RejectedByValidation(m) == m.status = "failed" /\ m.stage = "validation"

(* C9 as stated: validation accepts a configuration exactly when the four  *)
(* rules hold (unique non-"root" names; edge_list present and non-empty;   *)
(* edge names other than "root" are node names; every node name is in an   *)
(* edge), and a rejection comes before any node is constructed.            *)
C9_FourRulesExactly ==
    Validated =>
        /\ RejectedByValidation(inst[1]) <=> ~FourRules(config)
        /\ RejectedByValidation(inst[1]) => inst[1].created = 0 /\ inst[1].draws = 0

(* C9 amended: validation accepts a configuration exactly when the four    *)
(* rules hold and "root" appears in at least one edge; a rejection comes   *)
(* before any node is constructed and before any draw.                     *)
C9_FiveRulesExactly ==
    Validated =>
        /\ RejectedByValidation(inst[1]) <=> ~(FourRules(config) /\ RootInAnEdge(config))
        /\ RejectedByValidation(inst[1]) => inst[1].created = 0 /\ inst[1].draws = 0

\* a configuration of two nodes that meets the four rules and has no edge from
\* "root" has been rejected by validation
C9_Witness ==
    /\ Validated
    /\ RejectedByValidation(inst[1])
    /\ Len(config.node_list) = 2
    /\ FourRules(config)
    /\ ~RootInAnEdge(config)
    /\ ~HasCycle(config.edge_list)

-----------------------------------------------------------------------------
(* C10: every constructed causal model, a DAG built from a configuration   *)
(* as well as each built-in chain and tree model, satisfies the graph      *)
(* invariant: node names are unique, every edge end point other than       *)
(* "root" is a node of the model, and every node is in at least one edge.  *)

ModelNames(m) == {m.node_list[i].name : i \in 1..Len(m.node_list)}

GraphInvariant(m) ==
    /\ \A i, j \in 1..Len(m.node_list) : i # j => m.node_list[i].name # m.node_list[j].name
    /\ \A e \in EdgeSet(m.edge_list) : {e[1], e[2]} \ {"root"} \subseteq ModelNames(m)
    /\ \A n \in ModelNames(m) : \E e \in EdgeSet(m.edge_list) : n \in {e[1], e[2]}

\* C10: every constructed model satisfies the graph invariant
C10_GraphInvariant ==
    \A r \in 1..2 : inst[r].status = "built" => GraphInvariant(inst[r])

-----------------------------------------------------------------------------
(* C11: a WeightedSumNode spec that violates min_val < max_val, the        *)
(* corruption_type or activation_type lists, beta_a > 0, beta_b > 0 or     *)
(* std > 0, or that lacks a required field, makes the build fail before    *)
(* the node is constructed: no node object is created for it, no draw of   *)
(* the stream is made for it, and no model is returned.                    *)

\* the spec is one of a WeightedSumNode that the class refuses
RefusedWSSpec(sp) ==
    /\ sp.type = "WeightedSumNode"
    /\ \/ ~({"min_val", "max_val", "extreme", "standard", "beta_a", "beta_b",
              "corruption_type", "bias", "std", "activation_type"} \subseteq DOMAIN sp)
       \/ ~RLt(sp.min_val, sp.max_val)
       \/ sp.corruption_type \notin {"increasing", "decreasing", "centered"}
       \/ ~RLt(RInt(0), sp.beta_a)
       \/ ~RLt(RInt(0), sp.beta_b)
       \/ ~RLt(RInt(0), sp.std)
       \/ sp.activation_type \notin {"sigmoid", "tanh"}

\* C11: a configuration with a refused WeightedSumNode spec is never built, and
\* the failed build holds no object and no draw for the refused node
C11_InvalidWeightedSumFails ==
    (cls = "DAG" /\ inst[1].status # "none") =>
        \A i \in 1..Len(config.node_list) :
            RefusedWSSpec(config.node_list[i]) =>
                /\ inst[1].status = "failed"
                /\ inst[1].stage = "build"
                /\ config.node_list[i].name \notin inst[1].built
                /\ \A k \in 1..Len(inst[1].hist) :
                      inst[1].hist[k].by # config.node_list[i].name

\* the build has failed on a refused node after constructing its parent, which
\* has drawn from the stream
C11_Witness ==
    /\ cls = "DAG"
    /\ inst[1].status = "failed"
    /\ inst[1].stage = "build"
    /\ Len(config.node_list) = 2
    /\ RefusedWSSpec(config.node_list[2])
    /\ ~RefusedWSSpec(config.node_list[1])
    /\ inst[1].built = {config.node_list[1].name}
    /\ inst[1].created = 1
    /\ Len(inst[1].hist) > 0

-----------------------------------------------------------------------------
(* C12: registry overwrite.  After any sequence of register calls a lookup *)
(* of a name returns the object of the most recent registration of that    *)
(* name, and a registration leaves the entries of all other names as they  *)
(* were.                                                                   *)

RegisteredNames == {factory.registered[k].name : k \in 1..Len(factory.registered)}

\* the object of the most recent register call for the name
LastRegistered(name) ==
    factory.registered[SetMax({k \in 1..Len(factory.registered) :
                                 factory.registered[k].name = name})].obj

\* C12: the registry holds, for every name registered, the object of its most
\* recent registration, and the lookups return it
C12_RegistryOverwrite ==
    /\ DOMAIN factory.registry = RegisteredNames
    /\ \A name \in RegisteredNames : factory.registry[name] = LastRegistered(name)
    /\ (probe.op = "create_func" /\ probe.name \in RegisteredNames) =>
          probe.returned = LastRegistered(probe.name)
    /\ (probe.op = "create_class" /\ probe.name \in RegisteredNames) =>
          probe.returned = [instance_of |-> LastRegistered(probe.name),
                            kwargs |-> probe.kwargs]

\* a name registered twice, to two objects, with another name registered in
\* between, has been looked up
C12_Witness ==
    /\ Len(factory.registered) = 3
    /\ factory.registered[1].name = factory.registered[3].name
    /\ factory.registered[1].obj # factory.registered[3].obj
    /\ factory.registered[2].name # factory.registered[1].name
    /\ probe.op = "create_func"
    /\ probe.name = factory.registered[1].name
    /\ probe.returned = factory.registered[3].obj

-----------------------------------------------------------------------------
(* C13: registry miss.  create_class and create_func called with a name    *)
(* that is not registered return None without raising and leave the        *)
(* registry unchanged.                                                     *)

\* the step is a create_class or create_func call of a name not registered
LookupMisses ==
    /\ probe'.op \in {"create_class", "create_func"}
    /\ probe'.name \notin DOMAIN factory.registry

\* C13: a lookup that misses returns None, raises nothing, changes nothing
C13_RegistryMiss ==
    [][LookupMisses => (/\ probe'.returned = None
                        /\ ~probe'.raised
                        /\ factory' = factory)]_vars

\* create_class has missed on a registry that holds other names
C13_Witness ==
    /\ probe.op = "create_class"
    /\ probe.name \notin DOMAIN factory.registry
    /\ probe.returned = None
    /\ DOMAIN factory.registry # {}

-----------------------------------------------------------------------------
(* C14: the entry returned by causal_func.                                 *)

EntryKeys(d) == [i \in 1..Len(d) |-> d[i][1]]

\* the node's parameter, 'severity' and 'sampled' hold what was sampled
SampledAsStated(node, entry, sampled) ==
    /\ Get(entry, node.parameter) = sampled.render_value
    /\ Get(entry, "severity") = sampled.severity
    /\ Get(entry, "sampled") = Str(node.parameter)

DefaultsAsStated(node, entry) ==
    \A i \in 1..Len(node.defaults) :
        Get(entry, node.defaults[i][1]) = node.defaults[i][2]

\* no key of defaults is the node's parameter, 'severity' or 'sampled'
DefaultsApart(node) ==
    Keys(node.defaults) \cap {node.parameter, "severity", "sampled"} = {}

-----------------------------------------------------------------------------
(* C15: monotonic inverse round trip.  For a WeightedSumNode with          *)
(* corruption_type increasing or decreasing and min_val < max_val,         *)
(* get_render_value_from_severity(get_severity_from_render_value(r)) = r   *)
(* for every render value r of [min_val, max_val], and                     *)
(* get_severity_from_render_value(get_render_value_from_severity(s)) = s   *)
(* for every severity s of [0, 1], in exact arithmetic.                    *)

Monotonic(node) ==
    /\ node.node_type = "WeightedSumNode"
    /\ node.corruption_type \in {"increasing", "decreasing"}
    /\ RLt(node.min_val, node.max_val)

\* C15: a chained call on a monotonic node returns the argument of the first call
C15_MonotonicRoundTrip ==
    (/\ probe.op \in {"get_render_value_from_severity", "get_severity_from_render_value"}
     /\ probe.chained
     /\ Monotonic(probe.node))
        => probe.returned = probe.origin

\* a render value strictly inside the range of a decreasing node has gone
\* through both functions
C15_Witness ==
    /\ probe.op = "get_render_value_from_severity"
    /\ probe.chained
    /\ Monotonic(probe.node)
    /\ probe.node.corruption_type = "decreasing"
    /\ RLt(probe.node.min_val, probe.origin)
    /\ RLt(probe.origin, probe.node.max_val)
    /\ probe.arg # probe.origin

-----------------------------------------------------------------------------
(* C16: centered inverse magnitude.  For a WeightedSumNode with            *)
(* corruption_type centered, for every render value r of [min_val,         *)
(* max_val] and either outcome of the random sign,                         *)
(* |get_render_value_from_severity(get_severity_from_render_value(r))      *)
(*  - standard| = |r - standard|.                                          *)

Offset(node, render_value) == RAbs(RSub(render_value, node.standard))

\* C16: the render value that comes back lies as far from `standard` as the
\* render value that went in
C16_CenteredMagnitude ==
    (/\ probe.op = "get_render_value_from_severity"
     /\ probe.chained
     /\ probe.node.node_type = "WeightedSumNode"
     /\ probe.node.corruption_type = "centered")
        => Offset(probe.node, probe.returned) = Offset(probe.node, probe.origin)

\* a render value off `standard` has come back on the other side of it
C16_Witness ==
    /\ probe.op = "get_render_value_from_severity"
    /\ probe.chained
    /\ probe.node.node_type = "WeightedSumNode"
    /\ probe.node.corruption_type = "centered"
    /\ probe.returned # probe.origin
    /\ Offset(probe.node, probe.origin) # RInt(0)

-----------------------------------------------------------------------------
(* C17: once the construction of a DAG has succeeded, every sample() call  *)
(* completes and returns a mapping: no call reaches an error (a missing    *)
(* parent entry, a missing edge weight, a missing key).                    *)
C17_SampleNeverFails ==
    \A r \in 1..2 : (IsDAG(inst[r]) /\ inst[r].nsamp > 0) => inst[r].last.ok

-----------------------------------------------------------------------------
(* C18: DAG.load rejects, without constructing any node, every persisted   *)
(* form in which `loadable` is absent or false, `seed` is absent, or       *)
(* dag_generation_method is not 'CustomDAG'; every form written by save()  *)
(* of a built model passes these three checks and carries the model's      *)
(* seed, its edge list and the original configuration.                     *)

PassesLoadChecks(form) ==
    /\ Has(form, "loadable") /\ form.loadable = TRUE
    /\ Has(form, "seed")
    /\ Has(form, "dag_generation_method") /\ form.dag_generation_method = "CustomDAG"

\* C18: a form that fails a check is rejected before any node is constructed
\* or any draw is made, and the saved form passes the checks and carries the
\* seed, the edges and the configuration of the model that saved it
C18_LoadChecks ==
    /\ (probe.op = "load" /\ ~PassesLoadChecks(probe.form)) =>
          /\ inst[2].status = "failed"
          /\ inst[2].stage = "load"
          /\ inst[2].created = 0
          /\ inst[2].draws = 0
    /\ file.exists =>
          /\ PassesLoadChecks(file.yaml)
          /\ file.yaml.seed = inst[1].seed
          /\ file.yaml.edge_list = inst[1].edge_list
          /\ file.yaml.original_configuration = inst[1].configuration
          /\ file.yaml.original_configuration = config

\* the file of a model that drew its seed from np.random has been loaded without
\* its `seed` and has been rejected
C18_Witness ==
    /\ file.exists
    /\ inst[1].ambient_seed
    /\ probe.op = "load"
    /\ ~Has(probe.form, "seed")
    /\ Has(probe.form, "loadable")
    /\ inst[2].status = "failed"
    /\ Len(file.yaml.node_list) = 2

-----------------------------------------------------------------------------
(* C19: after build, a sample() call, with or without `intervene`, leaves  *)
(* every node's internal state unchanged (edge_weights, bias, distribution *)
(* parameters, ConstantNode values, defaults, parents) as well as the      *)
(* model's node set and edge list; it changes the random stream alone.     *)

\* the step is a sample() call on instance r
Sampled(r) == IsDAG(inst[r]) /\ inst'[r].nsamp = inst[r].nsamp + 1

\* the model but for its stream and for the record of the calls made on it
ModelState(m) ==
    [f \in (DOMAIN m) \ {"rng", "nsamp", "last", "intervenes"} |-> m[f]]

\* C19: a sample() call changes nothing of the model but its stream
C19_SampleFrame ==
    [][\A r \in 1..2 :
          Sampled(r) =>
              /\ inst'[r].node_objects = inst[r].node_objects
              /\ inst'[r].node_list = inst[r].node_list
              /\ inst'[r].edge_list = inst[r].edge_list
              /\ inst'[r].dag = inst[r].dag
              /\ ModelState(inst'[r]) = ModelState(inst[r])]_vars

\* a model with a WeightedSumNode below a parent has been sampled twice, the
\* second time with an intervention, and has drawn from its stream
C19_Witness ==
    /\ IsDAG(inst[1])
    /\ inst[1].nsamp = 2
    /\ inst[1].intervenes[2] # <<>>
    /\ Len(inst[1].rng.hist) > inst[1].built_draws
    /\ \E i \in 1..Len(inst[1].node_objects) :
          /\ inst[1].node_objects[i].node_type = "WeightedSumNode"
          /\ Len(inst[1].node_objects[i].parents) = 1

-----------------------------------------------------------------------------
(* C20: every random choice made while building a model and while sampling *)
(* from it is drawn from the one stream the model owns, initialised from   *)
(* its seed; no build or sample step of any model, a DAG with or without   *)
(* an explicit seed included, draws from the process-wide generator.       *)
C20_NoAmbientDraw == [][ambient' = ambient]_vars

-----------------------------------------------------------------------------
(* C21: the bias of a WeightedSumNode at construction                      *)

\* the draws a constructor call made for the bias
BiasDraws(returned) ==
    SelectSeq(returned.rng.hist, LAMBDA d : d.what = "bias")

RequestsRandomness(bias) ==
    \/ bias.t = "bool" /\ bias.bool
    \/ bias.t = "str" /\ bias.str = "random"

\* C21: a bias of True or "random" is set by exactly one Normal(0, 1) draw from
\* the stream, a bias that is a number is kept and nothing is drawn, and any
\* other bias becomes 0 and nothing is drawn.
C21_BiasAtConstruction ==
    probe.op = "WeightedSumNode" =>
        IF RequestsRandomness(probe.bias)
        THEN /\ BiasDraws(probe.returned) = <<[kind |-> "normal", by |-> "A", what |-> "bias"]>>
             /\ probe.returned.node.bias = normal(probe.rng, RInt(0), RInt(1))
        ELSE IF probe.bias.t = "num"
        THEN /\ BiasDraws(probe.returned) = <<>>
             /\ probe.returned.node.bias = probe.bias.num
        ELSE /\ BiasDraws(probe.returned) = <<>>
             /\ probe.returned.node.bias = RInt(0)

-----------------------------------------------------------------------------
(* C22: one edge weight per non-root parent                                *)

\* the first position of the edge (parent, name) in edge_list
FirstEdge(m, parent, name) ==
    CHOOSE i \in 1..Len(m.edge_list) :
        /\ m.edge_list[i] = <<parent, name>>
        /\ \A j \in 1..(i - 1) : m.edge_list[j] # <<parent, name>>

\* the uniform draws the constructor of `name` made while the model was built
WeightDraws(m, name) ==
    SelectSeq(SubSeq(m.rng.hist, 1, m.built_draws),
              LAMBDA d : d.kind = "uniform" /\ d.by = name)

\* C22: in every built or loaded model the edge_weights of a WeightedSumNode
\* have exactly the node's non-root parents as keys, and its constructor drew
\* one uniform per such parent, in the order the parents first appear in
\* edge_list.
C22_OneWeightPerParent ==
    \A r \in 1..2 :
        IsDAG(inst[r]) =>
            \A i \in 1..Len(inst[r].node_objects) :
                LET m == inst[r]
                    node == m.node_objects[i]
                    draws == WeightDraws(m, node.name)
                IN  node.node_type = "WeightedSumNode" =>
                        /\ DOMAIN node.edge_weights = NonRootParents(m, node.name)
                        /\ Len(draws) = Cardinality(NonRootParents(m, node.name))
                        /\ {draws[k].what : k \in 1..Len(draws)} = NonRootParents(m, node.name)
                        /\ \A k, l \in 1..Len(draws) :
                              k < l => FirstEdge(m, draws[k].what, node.name)
                                           < FirstEdge(m, draws[l].what, node.name)

\* a loaded model whose node C has two parents, B before A in edge_list, one of
\* the edges into C repeated
C22_Witness ==
    /\ IsDAG(inst[2]) /\ inst[2].loadable
    /\ inst[2].edge_list = <<<<"root", "A">>, <<"A", "B">>, <<"B", "C">>, <<"A", "C">>,
                             <<"B", "C">>>>
    /\ DOMAIN ObjectOf(inst[2], "C").edge_weights = {"A", "B"}
    /\ WeightDraws(inst[2], "C") = <<[kind |-> "uniform", by |-> "C", what |-> "B"],
                                     [kind |-> "uniform", by |-> "C", what |-> "A"]>>

-----------------------------------------------------------------------------
(* C23: the sampled render value and its severity stay in their ranges     *)

\* C23: for every accepted WeightedSumNode, of any corruption type and with
\* `standard` inside or outside [min_val, max_val], and every x of [0, 1] the
\* inverse-Beta step returns, the sampled render value lies in
\* [min_val, max_val] and the severity derived from it lies in [0, 1].
C23_SampleInRange ==
    (/\ probe.op = "causal_func"
     /\ probe.node.node_type = "WeightedSumNode")
        => /\ probe.sampled.ok
           /\ RLe(probe.node.min_val, probe.sampled.render_value)
           /\ RLe(probe.sampled.render_value, probe.node.max_val)
           /\ InUnit(probe.sampled.severity)

\* a centered node whose `standard` lies above max_val has sampled min_val, the
\* render value of x = 0, and its severity is 1
C23_Witness ==
    /\ probe.op = "causal_func"
    /\ probe.node.node_type = "WeightedSumNode"
    /\ probe.node.corruption_type = "centered"
    /\ RLt(probe.node.max_val, probe.node.standard)
    /\ probe.sampled.render_value = probe.node.min_val
    /\ probe.sampled.severity = RInt(1)

-----------------------------------------------------------------------------
(* C24: what a load takes from the persisted form and what it draws        *)

Loaded(m) == IsDAG(m) /\ m.loadable

\* the entry of the persisted node_list the node was loaded from
PersistedOf(m, name) == m.configuration.node_list[NodePos(m, name)]

\* every node holds the values of the persisted form
HoldsPersisted(m) ==
    \A i \in 1..Len(m.node_objects) :
        LET node == m.node_objects[i]
            sp == PersistedOf(m, node.name)
        IN  IF node.node_type = "ConstantNode"
            THEN /\ node.render_value = sp.render_value
                 /\ node.severity_value = sp.severity_value
            ELSE /\ node.edge_weights = sp.edge_weights
                 /\ node.bias = sp.bias.num

\* C24 as stated: the construction of a loaded model draws nothing from the
\* stream, and every node holds the persisted values.
C24_LoadDrawsNothing ==
    Loaded(inst[2]) => /\ inst[2].built_draws = 0
                       /\ HoldsPersisted(inst[2])

\* C24 as the code has it: every node of a loaded model holds the persisted
\* values and no bias is drawn, but the constructor of each WeightedSumNode
\* still draws one uniform per non-root parent, which the load then overwrites.
C24_LoadRedrawsWeights ==
    Loaded(inst[2]) =>
        /\ HoldsPersisted(inst[2])
        /\ \A k \in 1..inst[2].built_draws : inst[2].rng.hist[k].kind = "uniform"
        /\ SubSeq(inst[2].rng.hist, 1, inst[2].built_draws)
              = DrawsUpTo(inst[2], Len(inst[2].node_objects))

\* a loaded model of two nodes, the second a child of the first: the original
\* drew two biases and a weight, the load drew the weight alone, and the weight
\* it holds is the persisted one, not the one it drew
C24_Witness ==
    /\ Loaded(inst[2])
    /\ IsDAG(inst[1]) /\ inst[1].built_draws = 3
    /\ inst[2].built_draws = 1
    /\ Len(inst[2].node_objects) = 2
    /\ \E p \in DOMAIN inst[2].node_objects[2].edge_weights :
          /\ inst[2].node_objects[2].edge_weights[p] = inst[1].node_objects[2].edge_weights[p]
          /\ inst[2].node_objects[2].edge_weights[p]
                # uniform(default_rng(inst[2].seed), RInt(-1), RInt(1))

-----------------------------------------------------------------------------
(* C25: interventions at sample time keep the random state                 *)

\* the entry the node `name` gets when it is called after its parent, whose entry
\* is in `node_params`, the parent having been called first on the stream `rng`
EntryBelow(m, name, parent, node_params, rng) ==
    causal_func(ObjectOf(m, name), node_params,
                causal_func(ObjectOf(m, parent), <<>>, rng).rng).samples

\* C25: sample(intervene=I) leaves the stream as sample() without interventions
\* leaves it, the entry of every intervened node holds the pairs of I for it,
\* and a node below an intervened parent is sampled from the overridden
\* severity of that parent.
C25_InterveneKeepsStream ==
    [][\A r \in 1..2 :
          Sampled(r) =>
              LET m == inst[r]
                  I == inst'[r].intervenes[Len(inst'[r].intervenes)]
                  got == inst'[r].last
              IN  /\ inst'[r].rng = sample(m, <<>>).rng
                  /\ got.ok = sample(m, <<>>).ok
                  /\ Keys(got.node_params) = Keys(sample(m, <<>>).node_params)
                  /\ got.ok =>
                        /\ \A name \in Keys(I) \cap Keys(got.node_params) :
                              \A k \in Keys(Get(I, name)) :
                                  /\ HasKey(Get(got.node_params, name), k)
                                  /\ Get(Get(got.node_params, name), k) = Get(Get(I, name), k)
                        /\ \A i \in 1..Len(m.node_objects) :
                              \A j \in 1..Len(m.node_objects[i].parents) :
                                  LET name == m.node_objects[i].name
                                      parent == m.node_objects[i].parents[j]
                                  IN  (HasKey(I, parent) /\ ~HasKey(I, name)) =>
                                          Get(got.node_params, name)
                                            = EntryBelow(m, name, parent, got.node_params,
                                                         m.rng)]_vars

\* a model of two WeightedSumNodes, B below A with a weight that is not 0, has
\* been sampled with an intervention on A: the entry of A has severity 1 with a
\* render value of another severity, and both nodes have drawn their noise
C25_Witness ==
    /\ IsDAG(inst[1])
    /\ inst[1].nsamp = 1
    /\ inst[1].intervenes[1] # <<>>
    /\ inst[1].last.ok
    /\ Len(inst[1].node_objects) = 2
    /\ AllWeightedSum(inst[1])
    /\ ObjectOf(inst[1], "B").parents = <<"A">>
    /\ ObjectOf(inst[1], "B").edge_weights["A"] # RInt(0)
    /\ Get(Get(inst[1].last.node_params, "A"), "severity") = RInt(1)
    /\ get_severity_from_render_value(ObjectOf(inst[1], "A"),
                                      Get(Get(inst[1].last.node_params, "A"), "value"))
          # RInt(1)
    /\ Len(inst[1].rng.hist) = inst[1].built_draws + 2

-----------------------------------------------------------------------------
(* C26: the construction loop stops                                        *)

\* the construction of the nodes was entered and has ended
BuildEnded(m) ==
    \/ IsDAG(m)
    \/ m.status = "failed" /\ m.stage = "build"

AllBuilt(m) ==
    /\ IsDAG(m)
    /\ Len(m.node_objects) = Len(config.node_list)

\* the assertion of line 175, with nodes left to build
StoppedOnCycle(m) ==
    /\ m.status = "failed" /\ m.stage = "build"
    /\ m.error = "cycle"
    /\ Cardinality(m.built) < Len(config.node_list)

\* an error raised inside a pass, on the node being scanned
StoppedOnNode(m) ==
    /\ m.status = "failed" /\ m.stage = "build"
    /\ m.error # "cycle"
    /\ Cardinality(m.built) < Len(config.node_list)

\* C26 as stated: the loop marks all nodes built or stops with the cycle error,
\* in at most len(node_list) passes.
C26_AllBuiltOrCycle ==
    BuildEnded(inst[1]) =>
        /\ AllBuilt(inst[1]) \/ StoppedOnCycle(inst[1])
        /\ inst[1].passes <= Len(config.node_list)

\* C26 with the third way out: the loop marks all nodes built, or stops with
\* the cycle error, or stops on the error a node raises while it is scanned;
\* in each case it has made at most len(node_list) passes.
C26_BuildStops ==
    BuildEnded(inst[1]) =>
        /\ AllBuilt(inst[1]) \/ StoppedOnCycle(inst[1]) \/ StoppedOnNode(inst[1])
        /\ inst[1].passes <= Len(config.node_list)

\* the loop built the first node and stopped on a cycle in its second pass, the
\* last it is allowed
C26_Witness ==
    /\ StoppedOnCycle(inst[1])
    /\ Len(config.node_list) = 2
    /\ inst[1].passes = 2
    /\ Cardinality(inst[1].built) = 1

-----------------------------------------------------------------------------
(* C27: the saved node_list keeps the construction order                   *)

\* the names of a list of nodes or of node specs, in order
NamesInOrder(nodes) == [i \in 1..Len(nodes) |-> nodes[i].name]

\* C27: save() lists the nodes in the order of their construction, and a model
\* loaded from the file constructs them in that order, in one pass, whatever
\* the order of the configuration the original was built from.
C27_SavedOrder ==
    /\ file.exists =>
          NamesInOrder(file.yaml.node_list) = NamesInOrder(inst[1].node_objects)
    /\ Loaded(inst[2]) =>
          /\ NamesInOrder(inst[2].node_objects) = NamesInOrder(inst[1].node_objects)
          /\ inst[2].passes = 1

\* the original was built in three passes, last node of node_list first, and
\* the model loaded from its file was built in one
C27_Witness ==
    /\ Loaded(inst[2])
    /\ NamesInOrder(config.node_list) = <<"C", "B", "A">>
    /\ inst[1].passes = 3
    /\ NamesInOrder(inst[1].node_objects) = <<"A", "B", "C">>
    /\ NamesInOrder(inst[2].configuration.node_list) = <<"A", "B", "C">>
    /\ inst[2].passes = 1

-----------------------------------------------------------------------------
(* C28: the render value of a severity and the allowed range               *)

\* C28: for every WeightedSumNode, of any corruption type, and every severity
\* of [0, 1], get_render_value_from_severity returns a render value of
\* [min_val, max_val].
C28_RenderInRange ==
    (/\ probe.op = "get_render_value_from_severity"
     /\ ~probe.chained
     /\ probe.node.node_type = "WeightedSumNode")
        => /\ RLe(probe.node.min_val, probe.returned)
           /\ RLe(probe.returned, probe.node.max_val)

-----------------------------------------------------------------------------
(* C29: which accepted configurations are built                            *)

\* a DAG was asked for from a configuration whose edges close no cycle; its
\* node specs are all valid
AcyclicAsked ==
    /\ cls = "DAG"
    /\ inst[1].status # "none"
    /\ ~HasCycle(config.edge_list)

\* every node of node_list is the child of some edge
EveryNodeHasParent(cfg) ==
    \A name \in SpecNames(cfg) : \E e \in EdgeSet(cfg.edge_list) : e[2] = name

\* C29 as stated: every accepted configuration of valid nodes with an acyclic
\* edge graph is built, a node without an incoming edge included.
C29_AcyclicIsBuilt ==
    AcyclicAsked => AllBuilt(inst[1])

\* C29 for the nodes that have a parent: every accepted configuration of valid
\* nodes with an acyclic edge graph in which every node is the child of some
\* edge ('root' or a node its parent) is built, with all its nodes.
C29_BuildCompleteness ==
    (AcyclicAsked /\ EveryNodeHasParent(config)) => AllBuilt(inst[1])

\* a chain of three nodes, each with a parent, listed from its end, was built
\* in three passes
C29_Witness ==
    /\ AcyclicAsked /\ EveryNodeHasParent(config)
    /\ AllBuilt(inst[1])
    /\ Len(inst[1].node_objects) = 3
    /\ inst[1].passes = 3

-----------------------------------------------------------------------------
(* C30: the models a WrapperModel creates                                  *)

\* C30: a WrapperModel made from registered class names and as many config
\* files holds one model per pair, in the order of the lists, each an instance
\* of its class created with its own config file as config_file.
C30_WrapperCreatesEach ==
    (/\ probe.op = "WrapperModel"
     /\ Len(probe.dag_classes) = Len(probe.config_files)
     /\ \A i \in 1..Len(probe.dag_classes) :
           /\ probe.dag_classes[i] \in DOMAIN factory.registry
           /\ probe.config_files[i] # None)
        => /\ ~probe.returned.raised
           /\ probe.returned.n_dags = Len(probe.dag_classes)
           /\ Len(probe.returned.dags) = Len(probe.dag_classes)
           /\ \A i \in 1..Len(probe.dag_classes) :
                 /\ probe.returned.dags[i].instance_of
                       = factory.registry[probe.dag_classes[i]]
                 /\ HasKey(probe.returned.dags[i].kwargs, "config_file")
                 /\ Get(probe.returned.dags[i].kwargs, "config_file")
                       = probe.config_files[i]

====
